---- MODULE Spec2Model ----
(***************************************************************************)
(* A model of ai_commit: the diff analyzer (regular-expression rules over  *)
(* the diff text and the changed-file paths), the plugin manager and the   *)
(* commit workflows of the CLI and of the MCP server.                      *)
(*                                                                         *)
(* Text is modelled as a sequence of one-character strings, so that the    *)
(* regular expressions of the source are matched character by character.  *)
(***************************************************************************)
EXTENDS Integers, Sequences, FiniteSets, TLC

\* ------------------------------------------------------------------------
\* Characters and the regular-expression engine (ECMAScript backtracking
\* semantics: alternatives left to right, greedy quantifiers longest first).
\* ------------------------------------------------------------------------

LowerLetters ==
  {"a","b","c","d","e","f","g","h","i","j","k","l","m",
   "n","o","p","q","r","s","t","u","v","w","x","y","z"}

UpperLetters ==
  {"A","B","C","D","E","F","G","H","I","J","K","L","M",
   "N","O","P","Q","R","S","T","U","V","W","X","Y","Z"}

DigitChars == {"0","1","2","3","4","5","6","7","8","9"}

\* \w
WordChars == LowerLetters \cup UpperLetters \cup DigitChars \cup {"_"}

\* \s
SpaceChars == {" ", "\t", "\n", "\r"}

\* the characters "." does not match
LineTerminators == {"\n", "\r"}

LowerPairs ==
  <<"a","b","c","d","e","f","g","h","i","j","k","l","m",
    "n","o","p","q","r","s","t","u","v","w","x","y","z">>

UpperPairs ==
  <<"A","B","C","D","E","F","G","H","I","J","K","L","M",
    "N","O","P","Q","R","S","T","U","V","W","X","Y","Z">>

\* both cases of a character (the i flag)
BothCases(c) ==
  IF c \in LowerLetters
    THEN {c, UpperPairs[CHOOSE k \in 1..26 : LowerPairs[k] = c]}
    ELSE IF c \in UpperLetters
      THEN {c, LowerPairs[CHOOSE k \in 1..26 : UpperPairs[k] = c]}
      ELSE {c}

\* Regular-expression nodes.
In(cs) == [t |-> "in", cs |-> cs]
NotIn(cs) == [t |-> "notin", cs |-> cs]
Cat(rs) == [t |-> "cat", rs |-> rs]
Alt(rs) == [t |-> "alt", rs |-> rs]
Star(r) == [t |-> "star", r |-> r]
Lazy(r) == [t |-> "lazy", r |-> r]
Opt(r) == [t |-> "alt", rs |-> <<r, [t |-> "cat", rs |-> <<>>]>>]
Plus(r) == [t |-> "cat", rs |-> <<r, [t |-> "star", r |-> r]>>]
WordBoundary == [t |-> "wb"]
EndOfInput == [t |-> "end"]
EndOfLine == [t |-> "eol"]
StartOfInput == [t |-> "bol"]
Dot == NotIn(LineTerminators)
Space == In(SpaceChars)
Word == In(WordChars)
\* a run of characters, each from its own class
Lit(str) == [t |-> "lit", cs |-> [k \in 1..Len(str) |-> {str[k]}]]
LitI(str) == [t |-> "lit", cs |-> [k \in 1..Len(str) |-> BothCases(str[k])]]

IsWordAt(s, i) == i >= 1 /\ i <= Len(s) /\ s[i] \in WordChars

RECURSIVE Ends(_, _, _)
RECURSIVE EndsCat(_, _, _, _)
RECURSIVE EndsAlt(_, _, _, _)
RECURSIVE EndsEach(_, _, _, _, _, _)
RECURSIVE EndsRest(_, _, _, _)
RECURSIVE EndsStar(_, _, _, _)
RECURSIVE EndsLazy(_, _, _, _)

\* Where the run of characters of the class r that starts at position i of
\* s stops: the ends of r* from i are i up to this position.
RunEnd(r, s, i) ==
  LET stops == {k \in i..Len(s) : (s[k] \in r.cs) = (r.t = "notin")}
  IN IF stops = {} THEN Len(s) + 1
     ELSE CHOOSE k \in stops : \A j \in stops : k <= j

\* The positions at which a match of re starting at position i of s can
\* end (the index of the next unread character), in backtracking order.
Ends(re, s, i) ==
  CASE re.t = "in" ->
         IF i <= Len(s) /\ s[i] \in re.cs THEN <<i + 1>> ELSE <<>>
    [] re.t = "notin" ->
         IF i <= Len(s) /\ s[i] \notin re.cs THEN <<i + 1>> ELSE <<>>
    [] re.t = "lit" ->
         IF /\ i + Len(re.cs) - 1 <= Len(s)
            /\ \A k \in 1..Len(re.cs) : s[i + k - 1] \in re.cs[k]
           THEN <<i + Len(re.cs)>> ELSE <<>>
    [] re.t = "cat" -> EndsCat(re.rs, 1, s, i)
    [] re.t = "alt" -> EndsAlt(re.rs, 1, s, i)
    [] re.t = "star" ->
         IF re.r.t \in {"in", "notin"}
           THEN LET m == RunEnd(re.r, s, i)
                IN [n \in 1..(m - i + 1) |-> m - n + 1]
           ELSE EndsStar(re.r, s, Ends(re.r, s, i), 1) \o <<i>>
    [] re.t = "lazy" ->
         IF re.r.t \in {"in", "notin"}
           THEN LET m == RunEnd(re.r, s, i)
                IN [n \in 1..(m - i + 1) |-> i + n - 1]
           ELSE <<i>> \o EndsLazy(re.r, s, Ends(re.r, s, i), 1)
    [] re.t = "wb" ->
         IF IsWordAt(s, i - 1) # IsWordAt(s, i) THEN <<i>> ELSE <<>>
    [] re.t = "end" -> IF i = Len(s) + 1 THEN <<i>> ELSE <<>>
    [] re.t = "eol" ->
         IF i = Len(s) + 1 \/ s[i] \in LineTerminators THEN <<i>> ELSE <<>>
    [] re.t = "bol" -> IF i = 1 THEN <<i>> ELSE <<>>

EndsCat(rs, k, s, i) ==
  IF k > Len(rs) THEN <<i>>
  ELSE EndsRest(rs, k, s, Ends(rs[k], s, i))

\* for each end es[n] of rs[k] with n in lo..hi, in order, the ends of the
\* rest of the sequence
EndsEach(rs, k, s, es, lo, hi) ==
  IF lo > hi THEN <<>>
  ELSE IF lo = hi THEN EndsCat(rs, k + 1, s, es[lo])
  ELSE EndsEach(rs, k, s, es, lo, (lo + hi) \div 2)
         \o EndsEach(rs, k, s, es, (lo + hi) \div 2 + 1, hi)

\* the ends of rs[k+1..] from each of the ends es of rs[k]
EndsRest(rs, k, s, es) == EndsEach(rs, k, s, es, 1, Len(es))

EndsAlt(rs, k, s, i) ==
  IF k > Len(rs) THEN <<>>
  ELSE Ends(rs[k], s, i) \o EndsAlt(rs, k + 1, s, i)

\* one more iteration of r from each end in es, the longest first
EndsStar(r, s, es, n) ==
  IF n > Len(es) THEN <<>>
  ELSE EndsStar(r, s, Ends(r, s, es[n]), 1) \o <<es[n]>>
         \o EndsStar(r, s, es, n + 1)

\* one more iteration of r from each end in es, the shortest first
EndsLazy(r, s, es, n) ==
  IF n > Len(es) THEN <<>>
  ELSE <<es[n]>> \o EndsLazy(r, s, Ends(r, s, es[n]), 1)
         \o EndsLazy(r, s, es, n + 1)

\* The end of the match of re at position i, 0 when there is none.
MatchEnd(re, s, i) ==
  LET es == Ends(re, s, i) IN IF es = <<>> THEN 0 ELSE es[1]

\* RegExp.prototype.test (no g flag): re matches somewhere in s.
Test(re, s) == \E i \in 1..(Len(s) + 1) : Ends(re, s, i) # <<>>

\* The matches of a search that goes left to right from position p: every
\* match, each one starting where the previous match ended, when all is
\* TRUE, and the first match only otherwise; ends[i] is where the match that
\* starts at i ends, 0 when there is none.
MatchesFrom(ends, s, p, all) ==
  LET from[q \in 1..(Len(s) + 2)] ==
        LET starts == {i \in q..(Len(s) + 1) : ends[i] # 0}
        IN IF starts = {} THEN <<>>
           ELSE LET b == CHOOSE i \in starts : \A j \in starts : i <= j
                IN <<[from |-> b, text |-> SubSeq(s, b, ends[b] - 1)]>>
                     \o (IF all
                           THEN from[IF ends[b] = b THEN b + 1 ELSE ends[b]]
                           ELSE <<>>)
  IN from[p]

\* the matches of re in s from position p: all of them, or the first only
MatchSome(re, s, p, all) ==
  MatchesFrom([i \in 1..(Len(s) + 1) |-> MatchEnd(re, s, i)], s, p, all)

\* String.prototype.match with the g flag: every match, left to right, each
\* search starting where the previous match ended.
MatchAllFrom(re, s, p) == MatchSome(re, s, p, TRUE)

MatchAll(re, s) == MatchAllFrom(re, s, 1)

\* ------------------------------------------------------------------------
\* String operations of the source (String.prototype.*).
\* ------------------------------------------------------------------------

StartsWith(s, pre) == Len(s) >= Len(pre) /\ SubSeq(s, 1, Len(pre)) = pre

\* indexOf: the first position (1-based) of sub in s, 0 when absent
IndexOf(s, sub) ==
  LET hits == {i \in 1..(Len(s) - Len(sub) + 1) :
                 SubSeq(s, i, i + Len(sub) - 1) = sub}
  IN IF hits = {} THEN 0 ELSE CHOOSE i \in hits : \A j \in hits : i <= j

\* lastIndexOf of one character, 0 when absent
LastIndexOfChar(s, c) ==
  LET hits == {i \in 1..Len(s) : s[i] = c}
  IN IF hits = {} THEN 0 ELSE CHOOSE i \in hits : \A j \in hits : i >= j

Includes(s, sub) == Len(sub) = 0 \/ IndexOf(s, sub) # 0

\* s.replace(sub, rep) with a string pattern: the first occurrence only
ReplaceFirst(s, sub, rep) ==
  IF Len(sub) = 0 THEN rep \o s
  ELSE LET i == IndexOf(s, sub) IN
       IF i = 0 THEN s
       ELSE SubSeq(s, 1, i - 1) \o rep \o SubSeq(s, i + Len(sub), Len(s))

\* s.split(c) for a one-character separator
Split(s, c) ==
  LET \* the pieces of s from position i on
      pieces[i \in 1..(Len(s) + 1)] ==
        LET hits == {j \in i..Len(s) : s[j] = c}
        IN IF hits = {} THEN <<SubSeq(s, i, Len(s))>>
           ELSE LET j == CHOOSE h \in hits : \A g \in hits : h <= g
                IN <<SubSeq(s, i, j - 1)>> \o pieces[j + 1]
  IN pieces[1]

RECURSIVE JoinLines(_)
\* lines.join("\n")
JoinLines(ls) ==
  IF ls = <<>> THEN <<>>
  ELSE IF Len(ls) = 1 THEN ls[1]
  ELSE ls[1] \o <<"\n">> \o JoinLines(Tail(ls))

\* Array.prototype.includes
SeqIncludes(xs, x) == \E k \in 1..Len(xs) : xs[k] = x

\* ------------------------------------------------------------------------
\* rules.ts
\* ------------------------------------------------------------------------

CommentOpen == Alt(<<Lit(<<"#">>), Lit(<<"/","/">>), Lit(<<"/","*">>)>>)

\* /[+]\s*(?:#|\/\/|\/\*)\s*KW[:\s]*(.*)/gi
CommentPattern(kw) ==
  Cat(<<In({"+"}), Star(Space), CommentOpen, Star(Space), LitI(kw),
        Star(In({":"} \cup SpaceChars)), Star(Dot)>>)

\* /[+].*console\.log\((.*?)\)/g
ConsoleLogPattern ==
  Cat(<<In({"+"}), Star(Dot), Lit(<<"c","o","n","s","o","l","e",".","l","o","g","(">>), Lazy(Dot), Lit(<<")">>)>>)

\* /[+].*\bdebugger\b/g
DebuggerPattern ==
  Cat(<<In({"+"}), Star(Dot), WordBoundary, Lit(<<"d","e","b","u","g","g","e","r">>), WordBoundary>>)

\* /[+].*(password|secret|api[_-]?key|token|credential|private[_-]?key)/gi
SecurityKeywordPattern ==
  Cat(<<In({"+"}), Star(Dot),
        Alt(<<LitI(<<"p","a","s","s","w","o","r","d">>), LitI(<<"s","e","c","r","e","t">>),
              Cat(<<LitI(<<"a","p","i">>), Opt(In({"_", "-"})), LitI(<<"k","e","y">>)>>),
              LitI(<<"t","o","k","e","n">>), LitI(<<"c","r","e","d","e","n","t","i","a","l">>),
              Cat(<<LitI(<<"p","r","i","v","a","t","e">>), Opt(In({"_", "-"})), LitI(<<"k","e","y">>)>>)>>)>>)

\* /[+].*(password|apikey|api_key|secret)\s*=\s*['"]/gi
HardcodedCredentialPattern ==
  Cat(<<In({"+"}), Star(Dot),
        Alt(<<LitI(<<"p","a","s","s","w","o","r","d">>), LitI(<<"a","p","i","k","e","y">>), LitI(<<"a","p","i","_","k","e","y">>),
              LitI(<<"s","e","c","r","e","t">>)>>),
        Star(Space), In({"="}), Star(Space), In({"'", "\""})>>)

\* /[+].*fs\.(readFileSync|writeFileSync|existsSync)/g
SyncFilePattern ==
  Cat(<<In({"+"}), Star(Dot), Lit(<<"f","s",".">>),
        Alt(<<Lit(<<"r","e","a","d","F","i","l","e","S","y","n","c">>), Lit(<<"w","r","i","t","e","F","i","l","e","S","y","n","c">>),
              Lit(<<"e","x","i","s","t","s","S","y","n","c">>)>>)>>)

\* /[+].*eslint-disable/g
EslintDisablePattern == Cat(<<In({"+"}), Star(Dot), Lit(<<"e","s","l","i","n","t","-","d","i","s","a","b","l","e">>)>>)

\* /[+].*@ts-(ignore|nocheck)/g
TsIgnorePattern ==
  Cat(<<In({"+"}), Star(Dot), Lit(<<"@","t","s","-">>),
        Alt(<<Lit(<<"i","g","n","o","r","e">>), Lit(<<"n","o","c","h","e","c","k">>)>>)>>)

\* /[+].*:\s*any\b/g
AnyTypePattern ==
  Cat(<<In({"+"}), Star(Dot), In({":"}), Star(Space), Lit(<<"a","n","y">>),
        WordBoundary>>)

\* An AnalysisRule.  global is the g flag of its pattern and lastIndex the
\* lastIndex of that RegExp object; description tells whether the rule has a
\* description function.  The rules of DEFAULT_RULES have both.
Rule(name, pattern, severity, category) ==
  [name |-> name, pattern |-> pattern, severity |-> severity,
   category |-> category, global |-> TRUE, lastIndex |-> 0,
   description |-> TRUE]

DEFAULT_RULES ==
  << Rule("TODO Comment", CommentPattern(<<"T","O","D","O">>), "LOW", "technical-debt"),
     Rule("FIXME Comment", CommentPattern(<<"F","I","X","M","E">>), "MEDIUM", "technical-debt"),
     Rule("HACK Comment", CommentPattern(<<"H","A","C","K">>), "MEDIUM", "technical-debt"),
     Rule("XXX Comment", CommentPattern(<<"X","X","X">>), "MEDIUM", "technical-debt"),
     Rule("Console Log", ConsoleLogPattern, "LOW", "technical-debt"),
     Rule("Debugger Statement", DebuggerPattern, "MEDIUM", "technical-debt"),
     Rule("Security Keyword", SecurityKeywordPattern, "HIGH", "security"),
     Rule("Hardcoded Credential", HardcodedCredentialPattern, "HIGH", "security"),
     Rule("Synchronous File Operation", SyncFilePattern, "LOW", "performance"),
     Rule("ESLint Disable", EslintDisablePattern, "LOW", "code-quality"),
     Rule("TypeScript Ignore", TsIgnorePattern, "MEDIUM", "code-quality"),
     Rule("Any Type Usage", AnyTypePattern, "LOW", "code-quality") >>

RiskArea(type, patterns, severity) ==
  [type |-> type, patterns |-> patterns, severity |-> severity]

\* in the order of Object.entries(RISK_PATTERNS)
RISK_PATTERNS ==
  << RiskArea(<<"d","a","t","a","b","a","s","e">>,
       <<Alt(<<LitI(<<"m","i","g","r","a","t","i","o","n">>), LitI(<<"s","c","h","e","m","a">>),
               Cat(<<LitI(<<"m","o","d","e","l">>), Opt(In({"s", "S"}))>>),
               LitI(<<"d","a","t","a","b","a","s","e">>)>>)>>, "HIGH"),
     RiskArea(<<"s","e","c","u","r","i","t","y">>,
       <<Alt(<<LitI(<<"a","u","t","h">>), LitI(<<"s","e","c","u","r","i","t","y">>), LitI(<<"p","a","s","s","w","o","r","d">>),
               LitI(<<"e","n","c","r","y","p","t">>), LitI(<<"d","e","c","r","y","p","t">>), LitI(<<"s","e","s","s","i","o","n">>)>>)>>,
       "HIGH"),
     RiskArea(<<"a","p","i">>,
       <<Alt(<<LitI(<<"a","p","i">>), LitI(<<"e","n","d","p","o","i","n","t">>), LitI(<<"r","o","u","t","e">>),
               LitI(<<"c","o","n","t","r","o","l","l","e","r">>)>>)>>, "MEDIUM"),
     RiskArea(<<"c","o","n","f","i","g">>,
       <<Alt(<<LitI(<<"c","o","n","f","i","g">>), LitI(<<"s","e","t","t","i","n","g","s">>), LitI(<<".","e","n","v">>)>>)>>,
       "MEDIUM"),
     RiskArea(<<"i","n","f","r","a","s","t","r","u","c","t","u","r","e">>,
       <<Alt(<<LitI(<<"d","o","c","k","e","r">>), LitI(<<"k","u","b","e","r","n","e","t","e","s">>), LitI(<<"k","8","s">>),
               LitI(<<"t","e","r","r","a","f","o","r","m">>), LitI(<<"d","e","p","l","o","y","m","e","n","t">>)>>)>>, "HIGH") >>

JsExt == Alt(<<Lit(<<"t","s">>), Lit(<<"t","s","x">>), Lit(<<"j","s">>), Lit(<<"j","s","x">>)>>)

TEST_FILE_PATTERNS ==
  << Cat(<<Lit(<<".","t","e","s","t",".">>), JsExt, EndOfInput>>),
     Cat(<<Lit(<<".","s","p","e","c",".">>), JsExt, EndOfInput>>),
     Cat(<<Lit(<<"/","t","e","s","t">>), Opt(In({"s"})), Lit(<<"/">>)>>),
     Lit(<<"/","_","_","t","e","s","t","s","_","_","/">>),
     Cat(<<Lit(<<".","t","e","s","t",".","p","y">>), EndOfInput>>),
     Cat(<<Lit(<<"t","e","s","t","_">>), Star(Dot), Lit(<<".","p","y">>), EndOfInput>>) >>

SOURCE_FILE_PATTERNS ==
  << Cat(<<Lit(<<".">>),
           Alt(<<Lit(<<"t","s">>), Lit(<<"t","s","x">>), Lit(<<"j","s">>), Lit(<<"j","s","x">>), Lit(<<"p","y">>),
                 Lit(<<"g","o">>), Lit(<<"j","a","v","a">>), Lit(<<"r","s">>), Lit(<<"c">>), Lit(<<"c","p","p">>),
                 Lit(<<"h">>), Lit(<<"h","p","p">>)>>),
           EndOfInput>>) >>

EXCLUDED_PATTERNS ==
  << Lit(<<"n","o","d","e","_","m","o","d","u","l","e","s">>),
     Lit(<<".","g","i","t","/">>),
     Lit(<<"d","i","s","t","/">>),
     Lit(<<"b","u","i","l","d","/">>),
     Lit(<<"c","o","v","e","r","a","g","e","/">>),
     Cat(<<Lit(<<".","m","i","n",".">>), Alt(<<Lit(<<"j","s">>), Lit(<<"c","s","s">>)>>), EndOfInput>>),
     Cat(<<Lit(<<"p","a","c","k","a","g","e","-","l","o","c","k",".","j","s","o","n">>), EndOfInput>>),
     Cat(<<Lit(<<"y","a","r","n",".","l","o","c","k">>), EndOfInput>>) >>

\* patterns.some((pattern) => pattern.test(file))
SomeTest(patterns, file) == \E k \in 1..Len(patterns) : Test(patterns[k], file)

\* ------------------------------------------------------------------------
\* analyzer.ts
\* ------------------------------------------------------------------------

\* An optional string (string | undefined).
Undefined == [def |-> FALSE, text |-> <<>>]
Defined(str) == [def |-> TRUE, text |-> str]

\* obj.f of a rule object: the string "undefined" when obj has no property f
Prop(obj, f) == IF f \in DOMAIN obj THEN obj[f] ELSE "undefined"

\* the RegExp diff.match(rule.pattern) matches with: rule.pattern when it is
\* a RegExp; new RegExp(rule.pattern) when it is a string, kept in the rule
\* as that RegExp; new RegExp(undefined), which is /(?:)/ and matches the
\* empty string, when the rule has no pattern
RegExpOf(rule) ==
  IF "pattern" \in DOMAIN rule THEN rule.pattern ELSE Cat(<<>>)

\* filterFiles
filterFiles(files) ==
  SelectSeq(files, LAMBDA file : ~SomeTest(EXCLUDED_PATTERNS, file))

isTechnicalDebtRule(category) ==
  category \in {"technical-debt", "code-quality", "documentation"}

\* findLineNumber: the 1-based number of the first line that includes the
\* matched text; 0 stands for undefined
findLineNumber(diffLines, match) ==
  LET hits == {i \in 1..Len(diffLines) : Includes(diffLines[i], match)}
  IN IF hits = {} THEN 0 ELSE CHOOSE i \in hits : \A j \in hits : i <= j

\* line.match(/b\/(.*)/): group 1 of the first match
HeaderPath(line) ==
  LET i == IndexOf(line, <<"b","/">>) IN
  IF i = 0 THEN Undefined
  ELSE LET e == MatchEnd(Star(Dot), line, i + 2)
       IN Defined(SubSeq(line, i + 2, e - 1))

\* findFileForMatch: the path of the nearest "diff --git" line at or above
\* line lineNumber
findFileForMatch(diffLines, lineNumber) ==
  IF lineNumber = 0 THEN Undefined
  ELSE LET hdrs == {i \in 1..lineNumber :
                      StartsWith(diffLines[i], <<"d","i","f","f"," ","-","-","g","i","t">>)}
       IN IF hdrs = {} THEN Undefined
          ELSE HeaderPath(diffLines[CHOOSE i \in hdrs : \A j \in hdrs : i >= j])

RECURSIVE ItemsOfMatches(_, _, _, _)
\* the items of one rule, one per match
ItemsOfMatches(rule, matches, diffLines, k) ==
  IF k > Len(matches) THEN <<>>
  ELSE LET lineNumber == findLineNumber(diffLines, matches[k].text) IN
       << [type |-> Prop(rule, "name"),
           severity |-> Prop(rule, "severity"),
           line |-> lineNumber,
           file |-> findFileForMatch(diffLines, lineNumber),
           category |-> Prop(rule, "category")] >>
         \o ItemsOfMatches(rule, matches, diffLines, k + 1)

\* what a loop of RegExp.prototype.exec leaves: the matches found and the
\* lastIndex, which stays at the end of the last match
ExecResult(found) ==
  [matches |-> found,
   lastIndex |-> IF found = <<>> THEN 0
                 ELSE found[Len(found)].from
                        + Len(found[Len(found)].text) - 1]

\* matching as a loop of RegExp.prototype.exec would do it: from the
\* lastIndex the pattern was left with
StringMatchFromLastIndex(rule, diff) ==
  ExecResult(MatchAllFrom(RegExpOf(rule), diff, rule.lastIndex + 1))

\* what diff.match(rule.pattern) returns and leaves, found being the matches
\* the search came to: every match of the pattern in diff with the g flag,
\* the first one without it.  With the g flag: lastIndex is set to 0, every
\* match is returned and lastIndex is 0 afterwards.  Without it: the first
\* match only, and lastIndex is not touched (the capture groups that follow
\* the match in the array are left out: the patterns without the g flag that
\* are modelled have none).
MatchResult(rule, found) ==
  IF rule.global
    THEN [matches |-> found, lastIndex |-> 0]
    ELSE [matches |-> IF found = <<>> THEN <<>> ELSE <<found[1]>>,
          lastIndex |-> rule.lastIndex]

\* diff.match(rule.pattern)
StringMatch(rule, diff) ==
  MatchResult(rule, MatchSome(RegExpOf(rule), diff, 1, rule.global))

\* the items of one rule: none unless it is a technical-debt rule
ItemsOfRule(rule, diff, diffLines) ==
  IF isTechnicalDebtRule(Prop(rule, "category"))
    THEN ItemsOfMatches(rule, StringMatch(rule, diff).matches, diffLines, 1)
    ELSE <<>>

RECURSIVE ItemsOfRules(_, _, _, _, _)
\* the items of the rules lo..hi, in the order of the rules
ItemsOfRules(rules, diff, diffLines, lo, hi) ==
  IF lo > hi THEN <<>>
  ELSE IF lo = hi THEN ItemsOfRule(rules[lo], diff, diffLines)
  ELSE ItemsOfRules(rules, diff, diffLines, lo, (lo + hi) \div 2)
         \o ItemsOfRules(rules, diff, diffLines, (lo + hi) \div 2 + 1, hi)

\* rule.description(match) throws a TypeError when description is no
\* function: detectTechnicalDebt throws at the first match of such a rule
detectTechnicalDebtThrows(rules, diff) ==
  \E k \in 1..Len(rules) :
    /\ isTechnicalDebtRule(Prop(rules[k], "category"))
    /\ StringMatch(rules[k], diff).matches # <<>>
    /\ ~rules[k].description

\* detectTechnicalDebt; files is not read.  An item's description (a display
\* string made by rule.description) is left out: nothing else reads it.
detectTechnicalDebt(rules, diff, files) ==
  ItemsOfRules(rules, diff, Split(diff, "\n"), 1, Len(rules))

\* capitalize
capitalize(str) ==
  IF str = <<>> THEN str
  ELSE <<IF str[1] \in LowerLetters
           THEN CHOOSE c \in BothCases(str[1]) : c # str[1]
           ELSE str[1]>> \o Tail(str)

\* the default branch of getRiskCategory alone
getRiskCategoryDefault(riskType) == "performance"

\* getRiskCategory
getRiskCategory(riskType) ==
  CASE riskType = <<"d","a","t","a","b","a","s","e">> -> "data-loss"
    [] riskType = <<"s","e","c","u","r","i","t","y">> -> "security"
    [] riskType = <<"a","p","i">> -> "breaking-change"
    [] riskType = <<"c","o","n","f","i","g">> -> "performance"
    [] riskType = <<"i","n","f","r","a","s","t","r","u","c","t","u","r","e">> -> "breaking-change"
    [] OTHER -> "performance"

Identifier == Plus(Word)

breakingPatterns ==
  << Cat(<<In({"-"}), Star(Space),
           Opt(Cat(<<Lit(<<"e","x","p","o","r","t">>), Plus(Space)>>)),
           Alt(<<Lit(<<"c","l","a","s","s">>), Lit(<<"i","n","t","e","r","f","a","c","e">>), Lit(<<"f","u","n","c","t","i","o","n">>),
                 Lit(<<"c","o","n","s","t">>), Lit(<<"l","e","t">>), Lit(<<"v","a","r">>)>>),
           Plus(Space), Identifier>>),
     Cat(<<In({"-"}), Star(Space),
           Alt(<<Lit(<<"p","u","b","l","i","c">>), Lit(<<"p","r","i","v","a","t","e">>), Lit(<<"p","r","o","t","e","c","t","e","d">>)>>),
           Plus(Space), Identifier, In({"("})>>),
     Cat(<<In({"-"}), Star(Space), Lit(<<"d","e","f">>), Plus(Space),
           Identifier, In({"("})>>) >>

\* hasBreakingChanges
hasBreakingChanges(diff) == SomeTest(breakingPatterns, diff)

RECURSIVE Texts(_)
Texts(matches) ==
  IF matches = <<>> THEN <<>>
  ELSE <<matches[1].text>> \o Texts(Tail(matches))

dataPatterns ==
  << Cat(<<Lit(<<"i","n","t","e","r","f","a","c","e">>), Plus(Space), Identifier, Star(Dot),
           In({"{"})>>),
     Cat(<<Lit(<<"t","y","p","e">>), Plus(Space), Identifier, Star(Space),
           In({"="})>>),
     Cat(<<Lit(<<"c","l","a","s","s">>), Plus(Space), Identifier, Star(Dot),
           In({"{"})>>),
     Lit(<<"@","d","a","t","a","c","l","a","s","s">>) >>

\* diff.match(/-.*$/gm)
removals(diff) ==
  Texts(MatchAll(Cat(<<In({"-"}), Star(Dot), EndOfLine>>), diff))

\* diff.match(/\+.*$/gm)
additions(diff) ==
  Texts(MatchAll(Cat(<<In({"+"}), Star(Dot), EndOfLine>>), diff))

\* lines.some((line) => pattern.test(line))
SomeLine(pattern, lines) ==
  \E k \in 1..Len(lines) : Test(pattern, lines[k])

\* hasDataStructureChanges
hasDataStructureChanges(diff) ==
  \E p \in 1..Len(dataPatterns) :
    /\ SomeLine(dataPatterns[p], removals(diff))
    /\ SomeLine(dataPatterns[p], additions(diff))

RECURSIVE AreaRisks(_, _)
AreaRisks(files, k) ==
  IF k > Len(RISK_PATTERNS) THEN <<>>
  ELSE LET config == RISK_PATTERNS[k]
           affectedFiles ==
             SelectSeq(files, LAMBDA file : SomeTest(config.patterns, file))
       IN (IF Len(affectedFiles) > 0
             THEN << [type |-> capitalize(config.type),
                      severity |-> config.severity,
                      category |-> getRiskCategory(config.type),
                      affectedFiles |-> affectedFiles] >>
             ELSE <<>>)
            \o AreaRisks(files, k + 1)

\* assessRisks
assessRisks(diff, files) ==
  AreaRisks(files, 1)
    \o (IF hasBreakingChanges(diff)
          THEN << [type |-> <<"B","r","e","a","k","i","n","g"," ","C","h","a","n","g","e">>, severity |-> "HIGH",
                   category |-> "breaking-change", affectedFiles |-> <<>>] >>
          ELSE <<>>)
    \o (IF hasDataStructureChanges(diff)
          THEN << [type |-> <<"D","a","t","a"," ","S","t","r","u","c","t","u","r","e"," ","C","h","a","n","g","e">>, severity |-> "MEDIUM",
                   category |-> "data-loss", affectedFiles |-> <<>>] >>
          ELSE <<>>)

\* getTestFileVariations
getTestFileVariations(sourceFile) ==
  LET extRe == Cat(<<Lit(<<".">>),
                     Alt(<<Lit(<<"t","s">>), Lit(<<"t","s","x">>), Lit(<<"j","s">>), Lit(<<"j","s","x">>),
                           Lit(<<"p","y">>)>>),
                     EndOfInput>>)
      found == MatchAll(extRe, sourceFile)
      ext == IF found = <<>> THEN <<>> ELSE found[1].text
      baseName == ReplaceFirst(sourceFile, ext, <<>>)
      underSrc == StartsWith(sourceFile, <<"s","r","c","/">>)
      rest == SubSeq(sourceFile, 5, Len(sourceFile))
      slash == LastIndexOfChar(sourceFile, "/")
      last == SubSeq(sourceFile, slash + 1, Len(sourceFile))
      fileName == ReplaceFirst(last, <<".","p","y">>, <<>>)
      dir == SubSeq(sourceFile, 1, slash - 1)
  IN << baseName \o <<".","t","e","s","t">> \o ext,
        baseName \o <<".","s","p","e","c">> \o ext,
        IF underSrc THEN <<"t","e","s","t","s","/">> \o rest ELSE sourceFile,
        IF underSrc THEN <<"_","_","t","e","s","t","s","_","_","/">> \o rest ELSE sourceFile >>
       \o (IF ext = <<".","p","y">>
             THEN << dir \o <<"/","t","e","s","t","_">> \o fileName \o <<".","p","y">> >>
             ELSE <<>>)

\* ------------------------------------------------------------------------
\* IEEE 754 double arithmetic, as far as checkTestCoverage uses it.  A
\* positive double is [m |-> its 53 significand bits, most significant
\* first, f |-> the number of those bits after the binary point].
\* ------------------------------------------------------------------------

MantissaBits == 53

RECURSIVE Pow2(_)
Pow2(k) ==
  IF k = 0 THEN 1
  ELSE IF k % 2 = 0 THEN Pow2(k \div 2) * Pow2(k \div 2)
  ELSE 2 * Pow2(k \div 2) * Pow2(k \div 2)

Zeros(k) == [j \in 1..k |-> 0]

\* bits without its leading zeros
StripZeros(bits) ==
  LET ones == {j \in 1..Len(bits) : bits[j] = 1}
  IN IF ones = {} THEN <<>>
     ELSE SubSeq(bits, CHOOSE j \in ones : \A i \in ones : j <= i, Len(bits))

RECURSIVE BitsValue(_)
\* the number a short bit string stands for
BitsValue(bits) ==
  IF bits = <<>> THEN 0
  ELSE IF Len(bits) = 1 THEN bits[1]
  ELSE BitsValue(SubSeq(bits, 1, Len(bits) \div 2))
           * Pow2(Len(bits) - Len(bits) \div 2)
         + BitsValue(SubSeq(bits, Len(bits) \div 2 + 1, Len(bits)))

\* the w low bits of v, most significant first
ToBits(v, w) == [j \in 1..w |-> (v \div Pow2(w - j)) % 2]

\* bits + 1 (one bit longer when every bit is 1)
Increment(bits) ==
  LET zeros == {j \in 1..Len(bits) : bits[j] = 0}
  IN IF zeros = {} THEN <<1>> \o Zeros(Len(bits))
     ELSE LET p == CHOOSE j \in zeros : \A i \in zeros : j >= i
          IN SubSeq(bits, 1, p - 1) \o <<1>> \o Zeros(Len(bits) - p)

RECURSIVE TimesSmall(_, _, _)
\* bits * k + carry, for a small k, twenty bits at a time from the right
TimesSmall(bits, k, carry) ==
  IF bits = <<>> THEN StripZeros(ToBits(carry, 31))
  ELSE LET w == IF Len(bits) < 20 THEN Len(bits) ELSE 20
           v == BitsValue(SubSeq(bits, Len(bits) - w + 1, Len(bits))) * k
                  + carry
       IN TimesSmall(SubSeq(bits, 1, Len(bits) - w), k, v \div Pow2(w))
            \o ToBits(v % Pow2(w), w)

RECURSIVE Pow2Mod(_, _)
\* 2^k modulo n
Pow2Mod(k, n) ==
  IF k = 0 THEN 1 % n
  ELSE IF k % 2 = 0 THEN (Pow2Mod(k \div 2, n) * Pow2Mod(k \div 2, n)) % n
  ELSE (2 * Pow2Mod(k \div 2, n) * Pow2Mod(k \div 2, n)) % n

\* what is left of r after k steps of the long division by n: r * 2^k mod n
Remainder(r, n, k) == (r * Pow2Mod(k, n)) % n

\* the next cnt bits of the binary expansion of r/n (0 <= r < n), followed
\* by the remainder as the last element
QuotientBits(r, n, cnt) ==
  [k \in 1..cnt |-> IF 2 * Remainder(r, n, k - 1) >= n THEN 1 ELSE 0]
    \o <<Remainder(r, n, cnt)>>

\* round an exact positive binary number (bits with f bits after the point)
\* to MantissaBits significant bits, ties to even; sticky tells whether
\* nonzero bits follow those given
RoundToDouble(bits, f, sticky) ==
  LET b == StripZeros(bits)
      extra == Len(b) - MantissaBits
  IN IF extra <= 0 THEN [m |-> b \o Zeros(-extra), f |-> f - extra]
     ELSE LET kept == SubSeq(b, 1, MantissaBits)
              guard == b[MantissaBits + 1]
              rest == sticky \/ \E k \in (MantissaBits + 2)..Len(b) : b[k] = 1
              up == guard = 1 /\ (rest \/ kept[MantissaBits] = 1)
              r == IF up THEN Increment(kept) ELSE kept
          IN IF Len(r) > MantissaBits
               THEN [m |-> SubSeq(r, 1, MantissaBits), f |-> f - extra - 1]
               ELSE [m |-> r, f |-> f - extra]

RECURSIVE NormalizeShift(_, _)
\* the least e with a * 2^e >= n
NormalizeShift(a, n) == IF a >= n THEN 0 ELSE 1 + NormalizeShift(2 * a, n)

\* a / n in double arithmetic, for integers 0 < a <= n
DoubleDivide(a, n) ==
  LET e == NormalizeShift(a, n)
      q == QuotientBits(a * Pow2(e) - n, n, MantissaBits)
      r == q[Len(q)]
  IN RoundToDouble(<<1>> \o SubSeq(q, 1, MantissaBits), e + MantissaBits,
                   r # 0)

\* x * k in double arithmetic, for a small positive integer k
DoubleTimes(x, k) == RoundToDouble(TimesSmall(x.m, k, 0), x.f, FALSE)

\* Math.round of a positive double below 2^31: floor(x + 1/2)
MathRound(x) ==
  LET ibits == Len(x.m) - x.f
      whole == IF ibits <= 0 THEN 0
               ELSE BitsValue(SubSeq(x.m, 1, ibits) )
      half == IF ibits < 0 THEN 0
              ELSE IF ibits >= Len(x.m) THEN 0 ELSE x.m[ibits + 1]
  IN whole + half

\* the percentage with 0 instead of 100 when there is no source file
coveragePercentageZeroDefault(nSource, nMissing) ==
  IF nSource = 0 \/ nSource - nMissing = 0 THEN 0
  ELSE MathRound(DoubleTimes(DoubleDivide(nSource - nMissing, nSource), 100))

\* the coveragePercentage of checkTestCoverage, from sourceFiles.length and
\* missingTests.length:
\*   Math.round(nSource > 0 ? ((nSource - nMissing) / nSource) * 100 : 100)
coveragePercentage(nSource, nMissing) ==
  IF nSource > 0
    THEN (IF nSource - nMissing = 0 THEN 0
          ELSE MathRound(DoubleTimes(DoubleDivide(nSource - nMissing, nSource),
                                     100)))
    ELSE 100

\* checkTestCoverage
checkTestCoverage(files) ==
  LET sourceFiles ==
        SelectSeq(files, LAMBDA file : SomeTest(SOURCE_FILE_PATTERNS, file))
      testFiles ==
        SelectSeq(files, LAMBDA file : SomeTest(TEST_FILE_PATTERNS, file))
      missingTests ==
        SelectSeq(sourceFiles, LAMBDA sourceFile :
          LET testVariations == getTestFileVariations(sourceFile)
          IN ~\E k \in 1..Len(testVariations) :
                SeqIncludes(testFiles, testVariations[k]))
  IN [hasTests |-> Len(testFiles) > 0,
      testFiles |-> testFiles,
      missingTests |-> missingTests,
      coveragePercentage |->
        coveragePercentage(Len(sourceFiles), Len(missingTests))]

\* the area groups of analyzeArchitecture
corePatterns ==
  <<Alt(<<LitI(<<"c","o","r","e">>), LitI(<<"s","e","r","v","i","c","e","s">>), LitI(<<"i","n","f","r","a","s","t","r","u","c","t","u","r","e">>),
          LitI(<<"s","h","a","r","e","d">>)>>)>>

apiPatterns ==
  <<Alt(<<LitI(<<"a","p","i">>), LitI(<<"e","n","d","p","o","i","n","t","s">>), LitI(<<"r","o","u","t","e","s">>),
          LitI(<<"c","o","n","t","r","o","l","l","e","r","s">>)>>)>>

configPatterns ==
  <<Alt(<<LitI(<<"c","o","n","f","i","g">>), LitI(<<"s","e","t","t","i","n","g","s">>), LitI(<<".","e","n","v">>)>>)>>

dbPatterns ==
  <<Alt(<<LitI(<<"m","i","g","r","a","t","i","o","n">>), LitI(<<"s","c","h","e","m","a">>), LitI(<<"m","o","d","e","l","s">>)>>)>>

\* files.some((file) => patterns.some((pattern) => pattern.test(file)))
SomeFile(patterns, files) ==
  \E k \in 1..Len(files) : SomeTest(patterns, files[k])

\* analyzeArchitecture in which the api and config groups assign MEDIUM
\* whatever the level was
analyzeArchitectureOverwriting(files) ==
  LET hasCoreChanges == SomeFile(corePatterns, files)
      hasAPIChanges == SomeFile(apiPatterns, files)
      hasConfigChanges == SomeFile(configPatterns, files)
      hasDBChanges == SomeFile(dbPatterns, files)
      level1 == IF hasCoreChanges THEN "HIGH" ELSE "LOW"
      level2 == IF hasAPIChanges THEN "MEDIUM" ELSE level1
      level3 == IF hasConfigChanges THEN "MEDIUM" ELSE level2
  IN [level |-> IF hasDBChanges THEN "HIGH" ELSE level3,
      areas |-> (IF hasCoreChanges THEN <<"Core Services">> ELSE <<>>)
                  \o (IF hasAPIChanges THEN <<"API">> ELSE <<>>)
                  \o (IF hasConfigChanges THEN <<"Configuration">> ELSE <<>>)
                  \o (IF hasDBChanges THEN <<"Database">> ELSE <<>>),
      requiresReview |-> hasCoreChanges \/ hasDBChanges]

\* analyzeArchitecture; requiresReview is FALSE where the code leaves the
\* field unset
analyzeArchitecture(files) ==
  LET hasCoreChanges == SomeFile(corePatterns, files)
      hasAPIChanges == SomeFile(apiPatterns, files)
      hasConfigChanges == SomeFile(configPatterns, files)
      hasDBChanges == SomeFile(dbPatterns, files)
      level1 == IF hasCoreChanges THEN "HIGH" ELSE "LOW"
      level2 == IF hasAPIChanges
                  THEN (IF level1 = "HIGH" THEN "HIGH" ELSE "MEDIUM")
                  ELSE level1
      level3 == IF hasConfigChanges
                  THEN (IF level2 = "HIGH" THEN "HIGH" ELSE "MEDIUM")
                  ELSE level2
  IN [level |-> IF hasDBChanges THEN "HIGH" ELSE level3,
      areas |-> (IF hasCoreChanges THEN <<"Core Services">> ELSE <<>>)
                  \o (IF hasAPIChanges THEN <<"API">> ELSE <<>>)
                  \o (IF hasConfigChanges THEN <<"Configuration">> ELSE <<>>)
                  \o (IF hasDBChanges THEN <<"Database">> ELSE <<>>),
      requiresReview |-> hasCoreChanges \/ hasDBChanges]

\* new Analyzer(customRules): this.rules
Analyzer(customRules) == DEFAULT_RULES \o customRules

\* the rules after detectTechnicalDebt(diff): the lastIndex each pattern is
\* left with
RulesAfter(rules, diff) ==
  [k \in 1..Len(rules) |->
     IF isTechnicalDebtRule(Prop(rules[k], "category"))
       THEN [rules[k] EXCEPT !.lastIndex = StringMatch(rules[k], diff).lastIndex]
       ELSE rules[k]]

\* Analyzer.analyze, for an Analyzer whose this.rules is rules
analyze(rules, diff, files) ==
  LET filteredFiles == filterFiles(files) IN
  [technicalDebt |-> detectTechnicalDebt(rules, diff, filteredFiles),
   risks |-> assessRisks(diff, filteredFiles),
   testCoverage |-> checkTestCoverage(filteredFiles),
   architectureImpact |-> analyzeArchitecture(filteredFiles)]

\* ------------------------------------------------------------------------
\* Inputs of the analyzer.
\* ------------------------------------------------------------------------

\* the most changed files in one list
MaxFiles == 2

\* the most source files counted by the coverage percentage
MaxSource == 40

\* Changed paths, in the order git lists them.
PathPool ==
  << <<"c","o","n","f","i","g","/","d","o","c","k","e","r",".","e","n","v">>,
     <<"d","b","/","S","c","h","e","m","a",".","s","q","l">>,
     <<"d","o","c","s","/","a","p","i",".","m","d">>,
     <<"l","i","b","/","t","e","s","t","/","r","u","n",".","t","s">>,
     <<"n","o","d","e","_","m","o","d","u","l","e","s","/","a","u","t","h","/","s","c","h","e","m","a",".","t","e","s","t",".","j","s">>,
     <<"s","r","c","/","a","u","t","h","/","s","e","s","s","i","o","n",".","t","s">>,
     <<"s","r","c","/","c","o","r","e","/","i","n","d","e","x",".","t","s">>,
     <<"s","r","c","/","u","t","i","l",".","t","e","s","t",".","t","s">>,
     <<"s","r","c","/","u","t","i","l",".","t","s">> >>

RECURSIVE PickPaths(_, _)
\* the paths of PathPool at the positions in idx, in pool order
PickPaths(idx, k) ==
  IF k > Len(PathPool) THEN <<>>
  ELSE (IF k \in idx THEN <<PathPool[k]>> ELSE <<>>) \o PickPaths(idx, k + 1)

FileLists ==
  {PickPaths(idx, 1) :
     idx \in {s \in SUBSET (1..Len(PathPool)) : Cardinality(s) <= MaxFiles}}

HdrUtil == <<"d","i","f","f"," ","-","-","g","i","t"," ","a","/","s","r","c","/","u","t","i","l",".","t","s"," ","b","/","s","r","c","/","u","t","i","l",".","t","s">>
HdrVendor ==
  <<"d","i","f","f"," ","-","-","g","i","t"," ","a","/","n","o","d","e","_","m","o","d","u","l","e","s","/","a","u","t","h","/","s","c","h","e","m","a",".","t","e","s","t",".","j","s"," ","b","/","n","o","d","e","_","m","o","d","u","l","e","s","/","a","u","t","h","/","s","c","h","e","m","a",".","t","e","s","t",".","j","s">>
HdrLib == <<"d","i","f","f"," ","-","-","g","i","t"," ","a","/","l","i","b","/","t","e","s","t","/","r","u","n",".","t","s"," ","b","/","l","i","b","/","t","e","s","t","/","r","u","n",".","t","s">>
AddTodo == <<"+","/","/"," ","T","O","D","O",":"," ","t","i","d","y">>
DelTodo == <<"-","/","/"," ","T","O","D","O",":"," ","t","i","d","y">>
DelSum == <<"-","x"," ","="," ","a"," ","+"," ","b",";"," ","d","e","b","u","g","g","e","r",";">>
AddCode == <<"+","y"," ","="," ","2",";">>
AddEmpty == <<"+">>
CtxCode == <<" ","y"," ","="," ","1",";">>
CtxTodo == <<" ","/","/"," ","T","O","D","O",":"," ","o","l","d">>

DiffPool ==
  { <<>>,
    <<"t","e","s","t"," ","d","i","f","f"," ","c","o","n","t","e","n","t">>,
    JoinLines(<<AddTodo>>),
    JoinLines(<<HdrUtil, AddTodo>>),
    JoinLines(<<HdrUtil, DelTodo, AddCode>>),
    JoinLines(<<HdrUtil, DelSum, AddCode>>),
    JoinLines(<<HdrUtil, AddEmpty, CtxTodo>>),
    JoinLines(<<HdrUtil, CtxCode, AddCode>>),
    JoinLines(<<HdrVendor, AddTodo>>),
    JoinLines(<<HdrUtil, AddTodo, HdrVendor, AddTodo>>),
    JoinLines(<<HdrLib, AddTodo>>),
    JoinLines(<<HdrUtil, <<"-","i","n","t","e","r","f","a","c","e"," ","A"," ","{">>, <<"+","i","n","t","e","r","f","a","c","e"," ","B"," ","{">>>>),
    JoinLines(<<HdrUtil, <<"+","/","/"," ","p","r","e","-","c","l","a","s","s"," ","F","o","o"," ","{">>>>) }

\* ------------------------------------------------------------------------
\* State.
\* ------------------------------------------------------------------------

\* the most plugins named in the configuration
NumPlugins == 2

Plugins == 1..NumPlugins

VARIABLES
  diff,            \* analyze: the diff text
  files,           \* analyze: the changed files
  result,          \* analyze: the AnalysisResult, NotRun before the call
  sourceCount,     \* checkTestCoverage: sourceFiles.length
  missingCount,    \* checkTestCoverage: missingTests.length
  percentage,      \* checkTestCoverage: coveragePercentage, -1 before
  entry,           \* the workflow running: "cli" (commitCommand), "full"
                   \* (fullHandler) or "handler" (commitHandler)
  opts,            \* its options / tool arguments
  config,          \* the loaded configuration
  pc,              \* the statement the workflow is at
  steps,           \* the effectful calls made so far, in order
  failed,          \* the calls that threw, rejected or reported failure
  outcome,         \* "running", then "success" or "failure": the promise of
                   \* commitCommand resolved or rejected (or process.exit(1));
                   \* the success field of the tool result
  warnings,        \* logger.warn lines (cli), results.warnings (full)
  errors,          \* logger.error lines and results.error
  analysisResult,  \* analysisResult / analysis is set
  commitInfo,      \* commitInfo / sha is set
  committed,       \* git holds the new commit
  pushed,          \* git push succeeded
  loaded,          \* PluginManager.plugins
  syncers,         \* the loaded plugins that have a sync function
  syncState,       \* per plugin, where its sync call of this run is
  syncCalls,       \* per plugin, how often its sync was invoked
  hookRun,         \* the last runHook call: the hook, the plugins that
                   \* implement it, those invoked, and those whose hook
                   \* threw or rejected (logger.error for each)
  modules,         \* loadPlugin: per configured plugin, what its module is
                   \* like
  lifecycle,       \* loadPlugin: per configured plugin, the steps taken
                   \* with it so far, in order
  calls,           \* the analyze calls made so far, with their results
  ruleObjects,     \* the rule objects of DEFAULT_RULES, shared by every
                   \* Analyzer
  ruleConfig,      \* the configuration whose customRules the Analyzer gets
  rulePc,          \* where the run with custom rules is
  configSources,   \* ConfigLoader: what each configuration source holds
  loadedConfig,    \* ConfigLoader.load(): the merged configuration
  shown,           \* what was logged (verbose) or answered (config_get)
  mcpFile,         \* config_set: what the file .commitrc.mcp.json holds
  lastSet,         \* config_set: the key and the value of the last call
                   \* that succeeded
  drafter,         \* the handler that drafts the commit message: "full"
                   \* (fullHandler) or "handler" (commitHandler)
  draft            \* the drafted commit message

analysisVars == <<diff, files, result>>
percentageVars == <<sourceCount, missingCount, percentage>>
configVars == <<configSources, loadedConfig, shown, mcpFile, lastSet>>
draftVars == <<drafter, draft>>
callVars ==
  <<calls, ruleObjects, ruleConfig, rulePc, configSources, loadedConfig,
    shown, mcpFile, lastSet, drafter, draft>>
runVars == <<pc, steps, failed, outcome, warnings, errors>>
gitVars == <<analysisResult, commitInfo, committed, pushed>>
pluginVars ==
  <<loaded, syncers, syncState, syncCalls, hookRun, modules, lifecycle>>
workflowVars ==
  <<entry, opts, config, pc, steps, failed, outcome, warnings, errors,
    analysisResult, commitInfo, committed, pushed,
    loaded, syncers, syncState, syncCalls, hookRun, modules, lifecycle>>
vars ==
  <<diff, files, result, sourceCount, missingCount, percentage,
    entry, opts, config, pc, steps, failed, outcome, warnings, errors,
    analysisResult, commitInfo, committed, pushed,
    loaded, syncers, syncState, syncCalls, hookRun, modules, lifecycle,
    calls, ruleObjects,
    ruleConfig, rulePc, configSources, loadedConfig, shown, mcpFile,
    lastSet, drafter, draft>>

NotRun == [status |-> "not run"]

\* a plugin module of which nothing is known
AnyModule == [kind |-> "any"]

\* runHook has not been called
NoHook == [name |-> "none", implementing |-> {}, invoked |-> {}, threw |-> {}]

AnalysisIdle == diff = <<>> /\ files = <<>> /\ result = NotRun
PercentageIdle == sourceCount = 0 /\ missingCount = 0 /\ percentage = -1

\* ------------------------------------------------------------------------
\* The commit message drafted when the caller gives none.
\* ------------------------------------------------------------------------

EndsWith(s, suf) ==
  Len(s) >= Len(suf) /\ SubSeq(s, Len(s) - Len(suf) + 1, Len(s)) = suf

\* f.split('/').pop()
LastSegment(f) == SubSeq(f, LastIndexOfChar(f, "/") + 1, Len(f))

\* name.replace(/\.[^.]+$/, '')
StripExtension(name) ==
  LET i == LastIndexOfChar(name, ".")
  IN IF i = 0 \/ i = Len(name) THEN name ELSE SubSeq(name, 1, i - 1)

DecimalDigits == <<"0", "1", "2", "3", "4", "5", "6", "7", "8", "9">>

RECURSIVE NumberToString(_)
\* `${n}` for a natural number
NumberToString(n) ==
  IF n < 10 THEN <<DecimalDigits[n + 1]>>
  ELSE NumberToString(n \div 10) \o <<DecimalDigits[(n % 10) + 1]>>

RECURSIVE JoinWith(_, _)
\* parts.join(sep)
JoinWith(parts, sep) ==
  IF parts = <<>> THEN <<>>
  ELSE IF Len(parts) = 1 THEN parts[1]
  ELSE parts[1] \o sep \o JoinWith(Tail(parts), sep)

SomePath(fs, P(_)) == \E k \in 1..Len(fs) : P(fs[k])

\* generateCommitMessage of fullHandler: the type
generateCommitMessageType(fs, d) ==
  IF SomePath(fs, LAMBDA f : Includes(f, <<"t","e","s","t">>) \/ Includes(f, <<"s","p","e","c">>))
    THEN <<"t","e","s","t">>
  ELSE IF SomePath(fs, LAMBDA f : EndsWith(f, <<".","m","d">>) \/ Includes(f, <<"d","o","c">>))
    THEN <<"d","o","c","s">>
  ELSE IF Includes(d, <<"f","u","n","c","t","i","o","n">>) \/ Includes(d, <<"c","l","a","s","s">>)
            \/ Includes(d, <<"c","o","n","s","t">>)
    THEN (IF Includes(d, <<"e","x","p","o","r","t">>) /\ Includes(d, <<"n","e","w"," ">>) THEN <<"f","e","a","t">>
          ELSE IF Includes(d, <<"f","i","x">>) \/ Includes(d, <<"b","u","g">>) THEN <<"f","i","x">>
          ELSE <<"r","e","f","a","c","t","o","r">>)
  ELSE <<"c","h","o","r","e">>

\* generateCommitMessage; analysis is read for notes that are not used
generateCommitMessage(fs, d) ==
  LET description ==
        IF Len(fs) = 1
          THEN LET fileName == StripExtension(LastSegment(fs[1]))
               IN <<"u","p","d","a","t","e"," ">> \o (IF fileName = <<>> THEN <<"f","i","l","e">> ELSE fileName)
        ELSE IF Len(fs) <= 3
          THEN JoinWith([k \in 1..Len(fs) |-> LastSegment(fs[k])], <<","," ">>)
        ELSE <<"u","p","d","a","t","e"," ">> \o LastSegment(fs[1]) \o <<" ","a","n","d"," ">>
               \o NumberToString(Len(fs) - 1) \o <<" ","o","t","h","e","r"," ","f","i","l","e","s">>
  IN generateCommitMessageType(fs, d) \o <<":"," ">> \o description

\* generateMessage of commitHandler: the type
generateMessageType(fs, d) ==
  IF SomePath(fs, LAMBDA f : Includes(f, <<"t","e","s","t">>)) THEN <<"t","e","s","t">>
  ELSE IF SomePath(fs, LAMBDA f : EndsWith(f, <<".","m","d">>)) THEN <<"d","o","c","s">>
  ELSE IF Includes(d, <<"f","u","n","c","t","i","o","n">>) \/ Includes(d, <<"c","l","a","s","s">>)
    THEN (IF Includes(d, <<"e","x","p","o","r","t">>) THEN <<"f","e","a","t">> ELSE <<"r","e","f","a","c","t","o","r">>)
  ELSE <<"c","h","o","r","e">>

\* generateMessage; analysis is not read
generateMessage(fs, d) ==
  generateMessageType(fs, d) \o <<":"," ">>
    \o (IF Len(fs) = 1 THEN <<"u","p","d","a","t","e"," ">> \o LastSegment(fs[1])
        ELSE <<"u","p","d","a","t","e"," ">> \o NumberToString(Len(fs)) \o <<" ","f","i","l","e","s">>)

NotDrafted == <<>>

DraftIdle == drafter = "none" /\ draft = NotDrafted

DraftPaths ==
  << <<"R","E","A","D","M","E",".","m","d">>, <<"d","o","c","s","/","g","u","i","d","e",".","t","x","t">>, <<"s","r","c","/","u","t","i","l",".","s","p","e","c",".","t","s">>,
     <<"s","r","c","/","u","t","i","l",".","t","e","s","t",".","t","s">>, <<"s","r","c","/","u","t","i","l",".","t","s">> >>

\* the lists of at most two paths of DraftPaths, in order, and one of four
DraftFiles ==
  { SelectSeq([k \in 1..Len(DraftPaths) |-> k], LAMBDA k : k \in idx) :
      idx \in {s \in SUBSET (1..Len(DraftPaths)) : Cardinality(s) <= 2} }

DraftFileLists ==
  { [k \in 1..Len(idx) |-> DraftPaths[idx[k]]] : idx \in DraftFiles }
    \cup { <<<<"s","r","c","/","u","t","i","l",".","t","s">>, <<"s","r","c","/","a",".","t","s">>, <<"s","r","c","/","b",".","t","s">>, <<"s","r","c","/","c",".","t","s">>>> }

DraftDiffs ==
  { <<>>,
    <<"+","y"," ","="," ","2",";"," ","/","/"," ","f","i","x">>,
    <<"+","c","o","n","s","t"," ","y"," ","="," ","2",";">>,
    <<"+","f","u","n","c","t","i","o","n"," ","f","(",")"," ","{","}"," ","/","/"," ","f","i","x"," ","b","u","g">>,
    <<"+","e","x","p","o","r","t"," ","f","u","n","c","t","i","o","n"," ","f","(",")"," ","{","}">>,
    <<"+","e","x","p","o","r","t"," ","c","o","n","s","t"," ","y"," ","="," ","n","e","w"," ","Y","(",")",";">> }

\* args.message is empty: commitMessage = generateCommitMessage(...) in
\* fullHandler, generateMessage(...) in commitHandler
DraftMessage ==
  /\ draft = NotDrafted
  /\ draft' = IF drafter = "full" THEN generateCommitMessage(files, diff)
              ELSE generateMessage(files, diff)
  /\ UNCHANGED <<drafter, diff, files, result>>
  /\ UNCHANGED <<calls, ruleObjects, ruleConfig, rulePc, configVars>>
  /\ UNCHANGED <<percentageVars, workflowVars>>

\* ------------------------------------------------------------------------
\* config.ts: JSON values, the configuration sources and their merge.
\* ------------------------------------------------------------------------

\* JavaScript values: objects, strings, booleans, null, undefined
Obj(fields) == [t |-> "object", f |-> fields]
Str(s) == [t |-> "string", v |-> s]
Bool(b) == [t |-> "boolean", v |-> b]
Null == [t |-> "null"]
Undef == [t |-> "undefined"]
EmptyObj == Obj(<<>>)

\* if (x)
Truthy(x) ==
  CASE x.t = "object" -> TRUE
    [] x.t = "string" -> x.v # ""
    [] x.t = "boolean" -> x.v
    [] OTHER -> FALSE

\* obj[key], undefined when obj has no such property
Get(obj, key) == IF key \in DOMAIN obj.f THEN obj.f[key] ELSE Undef

\* obj with obj[key] = value
Put(obj, key, value) ==
  Obj([k \in DOMAIN obj.f \cup {key} |->
         IF k = key THEN value ELSE obj.f[k]])

RECURSIVE deepMerge(_, _)
\* deepMerge(target, source): target afterwards.  An object of source is
\* merged into the object target has under that key (a new one when target
\* has none); anything else replaces what target has.  (No source modelled
\* gives an object where an earlier one gave a string or a boolean.)
deepMerge(target, source) ==
  Obj([key \in DOMAIN target.f \cup DOMAIN source.f |->
         IF key \notin DOMAIN source.f THEN target.f[key]
         ELSE IF source.f[key].t = "object"
           THEN deepMerge(IF Truthy(Get(target, key))
                            THEN target.f[key] ELSE EmptyObj,
                          source.f[key])
           ELSE source.f[key]])

RECURSIVE MergeFrom(_, _, _)
MergeFrom(result0, configs, k) ==
  IF k > Len(configs) THEN result0
  ELSE MergeFrom(deepMerge(result0, configs[k]), configs, k + 1)

\* merge: later configurations override earlier ones
merge(configs) == MergeFrom(EmptyObj, configs, 1)

\* loadDefaults (plugins, analysis and the format of output are left out)
loadDefaults ==
  Obj([output |-> Obj([dir |-> Str("docs/commits")]),
       git |-> Obj([autoPush |-> Bool(FALSE), requireTests |-> Bool(FALSE)]),
       integrations |-> EmptyObj])

\* loadEnvironmentVars, for an environment env that gives each variable a
\* string or "unset"; the variables not modelled are unset
loadEnvironmentVars(env) ==
  LET git1 == IF env.AI_COMMIT_AUTO_PUSH # "unset"
                THEN Put(EmptyObj, "git",
                         Obj([autoPush |->
                                Bool(env.AI_COMMIT_AUTO_PUSH = "true"),
                              requireTests |-> Bool(FALSE)]))
                ELSE EmptyObj
      git2 == IF env.AI_COMMIT_REQUIRE_TESTS # "unset"
                THEN Put(git1, "git",
                         Obj([autoPush |-> Bool(FALSE),
                              requireTests |->
                                Bool(env.AI_COMMIT_REQUIRE_TESTS = "true")]))
                ELSE git1
      integrations ==
        IF env.NOTION_TOKEN \notin {"unset", ""}
          THEN Put(EmptyObj, "notion",
                   Obj([token |-> Str(env.NOTION_TOKEN),
                        databaseId |-> Undef]))
          ELSE EmptyObj
  IN IF DOMAIN integrations.f # {}
       THEN Put(git2, "integrations", integrations)
       ELSE git2

\* ConfigLoader.load: the files hold the object the loader returns for them
\* ({} when the file is absent or unreadable)
load(src) ==
  merge(<<loadDefaults, src.globalConfig, loadEnvironmentVars(src.env),
          src.commitRc, src.packageJson>>)

RECURSIVE JsonCopy(_)
\* JSON.parse(JSON.stringify(x)): properties that are undefined are dropped
JsonCopy(x) ==
  IF x.t = "object"
    THEN Obj([k \in {j \in DOMAIN x.f : x.f[j].t # "undefined"} |->
                JsonCopy(x.f[k])])
    ELSE x

Redacted == Str("***REDACTED***")

\* reading a property of null or undefined throws a TypeError
sanitizeThrows(cfg) ==
  /\ Truthy(Get(JsonCopy(cfg), "integrations"))
  /\ \E key \in DOMAIN Get(JsonCopy(cfg), "integrations").f :
       Get(JsonCopy(cfg), "integrations").f[key].t = "null"

\* one integration of sanitize: token and apiKey are overwritten when
\* truthy.  A string has no such properties and is left as it is.
RedactProp(x, prop) ==
  IF x.t = "object" /\ Truthy(Get(x, prop)) THEN Put(x, prop, Redacted)
  ELSE x

RedactIntegration(x) == RedactProp(RedactProp(x, "token"), "apiKey")

\* ConfigLoader.sanitize, when it does not throw
sanitize(cfg) ==
  LET sanitized == JsonCopy(cfg) IN
  IF Truthy(Get(sanitized, "integrations"))
    THEN Put(sanitized, "integrations",
             Obj([key \in DOMAIN sanitized.f["integrations"].f |->
                    RedactIntegration(sanitized.f["integrations"].f[key])]))
    ELSE sanitized

RECURSIVE getNestedValue(_, _)
\* getNestedValue(obj, key), key given as its parts
getNestedValue(obj, keys) ==
  IF keys = <<>> THEN obj
  ELSE IF obj.t = "object" /\ keys[1] \in DOMAIN obj.f
    THEN getNestedValue(obj.f[keys[1]], Tail(keys))
    ELSE Undef

\* what a configuration file can hold
FileConfigs ==
  { EmptyObj,
    Obj([git |-> Obj([autoPush |-> Bool(TRUE)])]),
    Obj([git |-> Obj([autoPush |-> Bool(FALSE)])]),
    Obj([git |-> Obj([requireTests |-> Bool(TRUE)])]),
    Obj([integrations |->
           Obj([notion |-> Obj([token |-> Str("secret_token_123"),
                                databaseId |-> Str("db_456")])])]),
    Obj([integrations |-> Obj([linear |-> Obj([apiKey |-> Str("")])])]),
    Obj([integrations |-> Obj([notion |-> Null])]) }

Environments ==
  [AI_COMMIT_AUTO_PUSH : {"unset", "true", "false"},
   AI_COMMIT_REQUIRE_TESTS : {"unset", "true"},
   NOTION_TOKEN : {"unset", "secret_env"}]

\* the file .commitrc.mcp.json does not exist
Absent == [t |-> "absent"]
\* config_set has not succeeded yet
NoSet == [t |-> "no set"]
NotLoaded == [t |-> "not loaded"]
NotShown == [t |-> "not shown"]
ErrorShown == [t |-> "error"]

ConfigIdle ==
  /\ configSources = [globalConfig |-> EmptyObj, commitRc |-> EmptyObj,
                packageJson |-> EmptyObj,
                env |-> [AI_COMMIT_AUTO_PUSH |-> "unset",
                         AI_COMMIT_REQUIRE_TESTS |-> "unset",
                         NOTION_TOKEN |-> "unset"]]
  /\ loadedConfig = NotLoaded
  /\ shown = NotShown
  /\ mcpFile = Absent
  /\ lastSet = NoSet
  /\ DraftIdle

\* const config = await configLoader.load()
ConfigLoad ==
  /\ loadedConfig = NotLoaded
  /\ loadedConfig' = load(configSources)
  /\ UNCHANGED <<configSources, shown, mcpFile, lastSet>>
  /\ UNCHANGED <<calls, ruleObjects, ruleConfig, rulePc, draftVars>>
  /\ UNCHANGED <<analysisVars, percentageVars, workflowVars>>

\* commitCommand with verbose: logger.debug('Configuration:', sanitized)
VerboseLog ==
  /\ loadedConfig # NotLoaded
  /\ shown = NotShown
  /\ shown' = IF sanitizeThrows(loadedConfig) THEN ErrorShown
              ELSE sanitize(loadedConfig)
  /\ UNCHANGED <<configSources, loadedConfig, mcpFile, lastSet>>
  /\ UNCHANGED <<calls, ruleObjects, ruleConfig, rulePc, draftVars>>
  /\ UNCHANGED <<analysisVars, percentageVars, workflowVars>>

\* configGetHandler({ key }) after its load: the value under key, or the
\* whole configuration when no key is given, of the sanitized configuration
ConfigGet(keys) ==
  /\ loadedConfig # NotLoaded
  /\ shown = NotShown
  /\ shown' = IF sanitizeThrows(loadedConfig) THEN ErrorShown
              ELSE getNestedValue(sanitize(loadedConfig), keys)
  /\ UNCHANGED <<configSources, loadedConfig, mcpFile, lastSet>>
  /\ UNCHANGED <<calls, ruleObjects, ruleConfig, rulePc, draftVars>>
  /\ UNCHANGED <<analysisVars, percentageVars, workflowVars>>

ConfigKeys ==
  { <<>>, <<"integrations", "notion", "token">>, <<"git", "autoPush">> }

RECURSIVE setNestedValue(_, _, _)
\* setNestedValue(obj, key, value), key given as its parts: obj afterwards.
\* (typeof null is 'object' too: no object modelled holds a null on the way.)
setNestedValue(obj, keys, value) ==
  IF Len(keys) = 1 THEN Put(obj, keys[1], value)
  ELSE Put(obj, keys[1],
           setNestedValue(IF keys[1] \in DOMAIN obj.f
                               /\ obj.f[keys[1]].t = "object"
                            THEN obj.f[keys[1]] ELSE EmptyObj,
                          Tail(keys), value))

\* the object configSetHandler starts from when .commitrc.mcp.json cannot be
\* read ($schema and the empty array plugins are left out)
McpDefaults ==
  Obj([analysis |-> Obj([enabled |-> Bool(TRUE)]),
       git |-> EmptyObj,
       integrations |-> EmptyObj])

\* what configSetHandler writes to .commitrc.mcp.json
configSetFile(file, keys, value) ==
  JsonCopy(setNestedValue(IF file = Absent THEN McpDefaults ELSE file,
                          keys, value))

\* the value configGetHandler({ key }) answers with, for the sources src:
\* load, sanitize and getNestedValue
configGetValue(src, keys) ==
  IF sanitizeThrows(load(src)) THEN ErrorShown
  ELSE getNestedValue(sanitize(load(src)), keys)

\* the keys and the values of the config_set calls; no key is a secret
SetKeys == { <<"git", "autoPush">>, <<"output", "dir">> }
SetValues == { Bool(TRUE), Bool(FALSE), Str("reports") }

\* configSetHandler({ key, value })
ConfigSet(keys, value) ==
  /\ mcpFile' = configSetFile(mcpFile, keys, value)
  /\ lastSet' = [keys |-> keys, value |-> value]
  /\ shown' = [t |-> "set", success |-> TRUE]
  /\ UNCHANGED <<configSources, loadedConfig>>
  /\ UNCHANGED <<calls, ruleObjects, ruleConfig, rulePc, draftVars>>
  /\ UNCHANGED <<analysisVars, percentageVars, workflowVars>>

\* configGetHandler({ key }), the whole handler
ConfigGetCall(keys) ==
  /\ shown' = [t |-> "got", keys |-> keys,
               value |-> configGetValue(configSources, keys)]
  /\ UNCHANGED <<configSources, loadedConfig, mcpFile, lastSet>>
  /\ UNCHANGED <<calls, ruleObjects, ruleConfig, rulePc, draftVars>>
  /\ UNCHANGED <<analysisVars, percentageVars, workflowVars>>

\* the configuration files a config_set session starts with
SetSources ==
  [globalConfig : {EmptyObj},
   commitRc : {EmptyObj, Obj([git |-> Obj([autoPush |-> Bool(TRUE)])]),
               Obj([output |-> Obj([dir |-> Str("reports")])])},
   packageJson : {EmptyObj},
   env : {[AI_COMMIT_AUTO_PUSH |-> "unset",
           AI_COMMIT_REQUIRE_TESTS |-> "unset",
           NOTION_TOKEN |-> "unset"]}]

\* the configuration of loadDefaults, with the custom rules given
RuleConfig(dir, customRules) ==
  [outputDir |-> dir, pluginsIsArray |-> TRUE, analysisEnabled |-> TRUE,
   customRules |-> customRules]

CallsIdle ==
  /\ calls = <<>>
  /\ ruleObjects = DEFAULT_RULES
  /\ ruleConfig = RuleConfig(<<"d","o","c","s","/","c","o","m","m","i","t","s">>, <<>>)
  /\ rulePc = "idle"
  /\ ConfigIdle

NoOptions ==
  [message |-> FALSE, analysis |-> TRUE, push |-> FALSE, analyzeOnly |-> FALSE,
   dryRun |-> FALSE, syncPlugins |-> TRUE, skipAnalysis |-> FALSE]

WorkflowIdle ==
  /\ entry = "none"
  /\ opts = NoOptions
  /\ config = [analysisEnabled |-> TRUE, autoPush |-> FALSE, plugins |-> 0]
  /\ pc = "done"
  /\ steps = <<>>
  /\ failed = {}
  /\ outcome = "running"
  /\ warnings = {}
  /\ errors = {}
  /\ analysisResult = FALSE
  /\ commitInfo = FALSE
  /\ committed = FALSE
  /\ pushed = FALSE
  /\ loaded = {}
  /\ syncers = {}
  /\ syncState = [p \in Plugins |-> "none"]
  /\ syncCalls = [p \in Plugins |-> 0]
  /\ hookRun = NoHook
  /\ modules = [p \in Plugins |-> AnyModule]
  /\ lifecycle = [p \in Plugins |-> <<>>]

\* ------------------------------------------------------------------------
\* The analyzer as a state machine: one call of analyze.
\* ------------------------------------------------------------------------

\* new Analyzer().analyze(diff, files)
Analyze ==
  /\ result = NotRun
  /\ result' = analyze(Analyzer(<<>>), diff, files)
  /\ UNCHANGED <<diff, files>>
  /\ UNCHANGED <<percentageVars, callVars>>
  /\ UNCHANGED workflowVars

InitAnalyze ==
  /\ diff \in DiffPool
  /\ files \in FileLists
  /\ result = NotRun
  /\ PercentageIdle
  /\ CallsIdle
  /\ WorkflowIdle

SpecAnalyze == InitAnalyze /\ [][Analyze]_vars

\* the last statement of checkTestCoverage, for the lengths of sourceFiles
\* and of missingTests
ComputePercentage ==
  /\ percentage = -1
  /\ percentage' = coveragePercentage(sourceCount, missingCount)
  /\ UNCHANGED <<sourceCount, missingCount>>
  /\ UNCHANGED <<analysisVars, callVars>>
  /\ UNCHANGED workflowVars

InitPercentage ==
  /\ sourceCount \in 0..MaxSource
  /\ missingCount \in 0..sourceCount
  /\ percentage = -1
  /\ AnalysisIdle
  /\ CallsIdle
  /\ WorkflowIdle

SpecPercentage == InitPercentage /\ [][ComputePercentage]_vars

\* ------------------------------------------------------------------------
\* A run with custom rules: from the configuration file (commitCommand:
\* load, validate, new Analyzer(config.analysis.customRules), analyze) or
\* from a caller of the library (new Analyzer(customRules), analyze).
\* ------------------------------------------------------------------------

\* ConfigLoader.validate: the error messages
validate(cfg) ==
  (IF cfg.outputDir = <<>> THEN {"Output directory not specified"} ELSE {})
    \cup (IF ~cfg.pluginsIsArray THEN {"Plugins must be an array"} ELSE {})
    \cup (IF cfg.analysisEnabled \notin BOOLEAN
            THEN {"analysis.enabled must be a boolean"} ELSE {})

\* A rule object of the configuration file (CustomRule), with the properties
\* in present.  Its pattern is a string, which diff.match turns into
\* new RegExp(pattern), without flags; those modelled have no special
\* character.  JSON carries no function: it has no description function.
JsonRule(name, pattern, severity, category, present) ==
  LET full == [name |-> name, pattern |-> Lit(pattern), severity |-> severity,
               category |-> category, global |-> FALSE, lastIndex |-> 0,
               description |-> FALSE]
  IN [f \in DOMAIN full \ ({"name", "pattern", "severity", "category"}
                             \ present) |-> full[f]]

AllProps == {"name", "pattern", "severity", "category"}

\* the rule of the README, whole, without pattern, without severity, and
\* with another category
JsonRuleSets ==
  { <<>>,
    <<JsonRule("Deprecated API", <<"o","l","d","_","a","p","i","_","c","a","l","l">>, "HIGH", "technical-debt",
               AllProps)>>,
    <<JsonRule("Deprecated API", <<"o","l","d","_","a","p","i","_","c","a","l","l">>, "HIGH", "technical-debt",
               AllProps \ {"pattern"})>>,
    <<JsonRule("Deprecated API", <<"o","l","d","_","a","p","i","_","c","a","l","l">>, "HIGH", "technical-debt",
               AllProps \ {"severity"})>>,
    <<JsonRule("Deprecated API", <<"o","l","d","_","a","p","i","_","c","a","l","l">>, "HIGH", "security",
               AllProps)>> }

\* /[+].*CUSTOM_MARKER/
CustomMarkerPattern == Cat(<<In({"+"}), Star(Dot), Lit(<<"C","U","S","T","O","M","_","M","A","R","K","E","R">>)>>)

\* An AnalysisRule built by a caller: a RegExp, with or without the g flag,
\* and a description function
ApiRule(name, pattern, global, severity, category) ==
  [Rule(name, pattern, severity, category) EXCEPT !.global = global]

ApiRuleSets ==
  { <<ApiRule("Custom Rule", CustomMarkerPattern, TRUE, "HIGH",
              "technical-debt")>>,
    <<ApiRule("Custom Rule", CustomMarkerPattern, FALSE, "HIGH",
              "technical-debt")>>,
    <<ApiRule("Custom Rule", CustomMarkerPattern, TRUE, "HIGH", "security")>> }

HdrCore == <<"d","i","f","f"," ","-","-","g","i","t"," ","a","/","s","r","c","/","c","o","r","e","/","i","n","d","e","x",".","t","s"," ","b","/","s","r","c","/","c","o","r","e","/","i","n","d","e","x",".","t","s">>

RuleDiffs ==
  { <<>>,
    JoinLines(<<HdrCore, AddCode>>),
    JoinLines(<<HdrCore, <<"+","o","l","d","_","a","p","i","_","c","a","l","l","(","1",")",";">>>>),
    JoinLines(<<HdrCore, <<" ","o","l","d","_","a","p","i","_","c","a","l","l","(","1",")",";">>, AddCode>>),
    JoinLines(<<HdrCore, <<"+","/","/"," ","C","U","S","T","O","M","_","M","A","R","K","E","R",":"," ","t","e","s","t">>>>),
    JoinLines(<<HdrCore, <<"+","/","/"," ","C","U","S","T","O","M","_","M","A","R","K","E","R",":"," ","a">>, <<"+","/","/"," ","C","U","S","T","O","M","_","M","A","R","K","E","R",":"," ","b">>>>) }

Threw == [status |-> "threw"]

\* configLoader.validate(config) of commitCommand: process.exit(1) when the
\* configuration is not valid
RulesValidate ==
  /\ rulePc = "validate"
  /\ rulePc' = IF validate(ruleConfig) = {} THEN "analysis" ELSE "exit"
  /\ UNCHANGED <<calls, ruleObjects, ruleConfig, configVars, draftVars>>
  /\ UNCHANGED <<analysisVars, percentageVars, workflowVars>>

\* new Analyzer(customRules).analyze(diff, files)
RulesAnalysis ==
  /\ rulePc = "analysis"
  /\ LET rules == Analyzer(ruleConfig.customRules) IN
       IF detectTechnicalDebtThrows(rules, diff)
         THEN result' = Threw /\ rulePc' = "threw"
         ELSE result' = analyze(rules, diff, files) /\ rulePc' = "done"
  /\ UNCHANGED <<diff, files, calls, ruleObjects, ruleConfig, configVars, draftVars>>
  /\ UNCHANGED <<percentageVars, workflowVars>>

InitRules ==
  /\ \/ /\ rulePc = "validate"
        /\ ruleConfig \in {RuleConfig(dir, rules) :
                              dir \in {<<>>, <<"d","o","c","s","/","c","o","m","m","i","t","s">>},
                              rules \in JsonRuleSets}
     \/ /\ rulePc = "analysis"
        /\ ruleConfig \in {RuleConfig(<<"d","o","c","s","/","c","o","m","m","i","t","s">>, rules) :
                              rules \in ApiRuleSets}
  /\ diff \in RuleDiffs
  /\ files = <<<<"s","r","c","/","c","o","r","e","/","i","n","d","e","x",".","t","s">>>>
  /\ result = NotRun
  /\ calls = <<>>
  /\ ruleObjects = DEFAULT_RULES
  /\ ConfigIdle
  /\ PercentageIdle
  /\ WorkflowIdle

NextRules == RulesValidate \/ RulesAnalysis

SpecRules == InitRules /\ [][NextRules]_vars

\* loading, logging and config_get for every combination of sources
InitConfig ==
  /\ configSources \in [globalConfig : FileConfigs, commitRc : FileConfigs,
                  packageJson : FileConfigs, env : Environments]
  /\ loadedConfig = NotLoaded
  /\ shown = NotShown
  /\ mcpFile = Absent
  /\ lastSet = NoSet
  /\ DraftIdle
  /\ calls = <<>>
  /\ ruleObjects = DEFAULT_RULES
  /\ ruleConfig = RuleConfig(<<"d","o","c","s","/","c","o","m","m","i","t","s">>, <<>>)
  /\ rulePc = "idle"
  /\ AnalysisIdle
  /\ PercentageIdle
  /\ WorkflowIdle

NextConfig ==
  \/ ConfigLoad
  \/ VerboseLog
  \/ \E keys \in ConfigKeys : ConfigGet(keys)

SpecConfig == InitConfig /\ [][NextConfig]_vars

\* a session of the MCP tools config_set and config_get
InitConfigSet ==
  /\ configSources \in SetSources
  /\ loadedConfig = NotLoaded
  /\ shown = NotShown
  /\ mcpFile = Absent
  /\ lastSet = NoSet
  /\ DraftIdle
  /\ calls = <<>>
  /\ ruleObjects = DEFAULT_RULES
  /\ ruleConfig = RuleConfig(<<"d","o","c","s","/","c","o","m","m","i","t","s">>, <<>>)
  /\ rulePc = "idle"
  /\ AnalysisIdle
  /\ PercentageIdle
  /\ WorkflowIdle

NextConfigSet ==
  \/ \E keys \in SetKeys : \E value \in SetValues : ConfigSet(keys, value)
  \/ \E keys \in SetKeys : ConfigGetCall(keys)

SpecConfigSet == InitConfigSet /\ [][NextConfigSet]_vars

InitDraft ==
  /\ drafter \in {"full", "handler"}
  /\ draft = NotDrafted
  /\ files \in DraftFileLists
  /\ diff \in DraftDiffs
  /\ result = NotRun
  /\ calls = <<>>
  /\ ruleObjects = DEFAULT_RULES
  /\ ruleConfig = RuleConfig(<<"d","o","c","s","/","c","o","m","m","i","t","s">>, <<>>)
  /\ rulePc = "idle"
  /\ configSources = [globalConfig |-> EmptyObj, commitRc |-> EmptyObj,
                      packageJson |-> EmptyObj,
                      env |-> [AI_COMMIT_AUTO_PUSH |-> "unset",
                               AI_COMMIT_REQUIRE_TESTS |-> "unset",
                               NOTION_TOKEN |-> "unset"]]
  /\ loadedConfig = NotLoaded
  /\ shown = NotShown
  /\ mcpFile = Absent
  /\ lastSet = NoSet
  /\ PercentageIdle
  /\ WorkflowIdle

SpecDraft == InitDraft /\ [][DraftMessage]_vars

\* ------------------------------------------------------------------------
\* A sequence of analyze calls on Analyzer instances built with no custom
\* rules: their this.rules hold the same rule objects, those of
\* DEFAULT_RULES.
\* ------------------------------------------------------------------------

\* the most analyze calls in one run
MaxCalls == 3

Instances == {1, 2}

\* the staged diffs and changed-file lists handed to analyze
CallInputs ==
  { [diff |-> <<>>, files |-> <<>>],
    [diff |-> JoinLines(<<HdrUtil, AddTodo>>), files |-> <<<<"s","r","c","/","u","t","i","l",".","t","s">>>>],
    [diff |-> JoinLines(<<HdrUtil, AddTodo, HdrVendor, AddTodo>>),
     files |-> <<<<"s","r","c","/","c","o","r","e","/","i","n","d","e","x",".","t","s">>, <<"s","r","c","/","u","t","i","l",".","t","s">>>>] }

\* analyzer.analyze(d, f) on the instance inst
Call(inst, d, f) ==
  /\ Len(calls) < MaxCalls
  /\ calls' = Append(calls, [instance |-> inst, diff |-> d, files |-> f,
                             result |-> analyze(ruleObjects, d, f)])
  /\ ruleObjects' = RulesAfter(ruleObjects, d)
  /\ UNCHANGED <<ruleConfig, rulePc, configVars, draftVars>>
  /\ UNCHANGED <<analysisVars, percentageVars, workflowVars>>

InitCalls ==
  /\ CallsIdle
  /\ AnalysisIdle
  /\ PercentageIdle
  /\ WorkflowIdle

NextCalls ==
  \E inst \in Instances : \E input \in CallInputs :
    Call(inst, input.diff, input.files)

SpecCalls == InitCalls /\ [][NextCalls]_vars

\* ------------------------------------------------------------------------
\* The workflows: commitCommand (cli), fullHandler and commitHandler (MCP).
\* ------------------------------------------------------------------------

\* commitCommand with Phase 10 (push) moved in front of Phase 8 (commit): the
\* statement order that the ordering property of the workflow excludes
PushFirstOrder ==
  << "validateMessage", "loadConfig", "validateConfig", "checkRepo",
     "loadPlugins", "stage", "getDiff", "beforeAnalysis", "analysis",
     "afterAnalysis", "report", "analyzeOnly", "beforeCommit", "push",
     "commit", "afterCommit", "sync", "destroy", "done" >>

\* the statements of commitCommand, in program order
CliOrder ==
  << "validateMessage", "loadConfig", "validateConfig", "checkRepo",
     "loadPlugins", "stage", "getDiff", "beforeAnalysis", "analysis",
     "afterAnalysis", "report", "analyzeOnly", "beforeCommit", "commit",
     "afterCommit", "sync", "push", "destroy", "done" >>

\* the statements of fullHandler, in program order
FullOrder ==
  << "loadConfig", "stage", "getDiff", "analysis", "message", "report",
     "commit", "loadPlugins", "sync", "push", "return", "done" >>

\* the statements of commitHandler, in program order
HandlerOrder ==
  << "loadConfig", "stage", "getDiff", "analysis", "commit", "done" >>

Order(e) ==
  CASE e = "cli" -> CliOrder
    [] e = "full" -> FullOrder
    [] OTHER -> HandlerOrder

\* the statement that follows p
After(p) ==
  LET o == Order(entry)
  IN o[(CHOOSE k \in 1..Len(o) : o[k] = p) + 1]

\* try/catch placement in which git.commit has a try/catch of its own too:
\* a failed commit would be downgraded like a failed push
CaughtWithCommit(e, call) ==
  \/ e = "cli" /\ call \in {"commit", "push"}
  \/ e = "full" /\ call \in {"commit", "loadPlugins", "sync", "push"}

\* try/catch placement in which git.push has no try/catch of its own: a
\* failed push would reach the catch of the whole function
CaughtWithoutPush(e, call) ==
  e = "full" /\ call \in {"loadPlugins", "sync"}

\* Whether an exception of a call is caught by a try/catch of its own, after
\* which the workflow goes on: git.push in commitCommand; the plugin block
\* and git.push in fullHandler.  Every other exception reaches the catch of
\* the whole function.
Caught(e, call) ==
  \/ e = "cli" /\ call = "push"
  \/ e = "full" /\ call \in {"loadPlugins", "sync", "push"}

Step(next, newSteps, newFailed, newWarnings, newErrors, newOutcome) ==
  /\ pc' = next
  /\ steps' = steps \o newSteps
  /\ failed' = failed \cup newFailed
  /\ warnings' = warnings \cup newWarnings
  /\ errors' = errors \cup newErrors
  /\ outcome' = newOutcome

\* the call at statement p went well
Continue(p, newSteps) == Step(After(p), newSteps, {}, {}, {}, outcome)

\* the workflow returns
Return(newSteps, newWarnings, newOutcome) ==
  Step("done", newSteps, {}, newWarnings, {}, newOutcome)

\* process.exit(1) after logger.error
Exit(message) == Step("done", <<>>, {}, {}, {message}, "failure")

\* the call named call, made at statement p, throws after newSteps
Raise(p, call, newSteps) ==
  IF Caught(entry, call)
    THEN Step(After(p), newSteps, {call}, {call}, {}, outcome)
    ELSE Step("done", newSteps, {call}, {},
              {IF entry = "cli" THEN "Error during commit" ELSE "error"},
              "failure")

At(e, p) == entry \in e /\ pc = p /\ outcome = "running"

Mcp == {"full", "handler"}

\* ---- commitCommand

CliValidateMessage ==
  /\ At({"cli"}, "validateMessage")
  /\ IF ~opts.message /\ ~opts.analyzeOnly
       THEN Exit("Commit message is required")
       ELSE Continue("validateMessage", <<>>)
  /\ UNCHANGED <<entry, opts, config>>
  /\ UNCHANGED <<gitVars, pluginVars, analysisVars, percentageVars, callVars>>

LoadConfig ==
  /\ At({"cli", "full", "handler"}, "loadConfig")
  /\ \E ok \in BOOLEAN :
       IF ok THEN Continue("loadConfig", <<>>)
       ELSE Raise("loadConfig", "loadConfig", <<>>)
  /\ UNCHANGED <<entry, opts, config>>
  /\ UNCHANGED <<gitVars, pluginVars, analysisVars, percentageVars, callVars>>

CliValidateConfig ==
  /\ At({"cli"}, "validateConfig")
  /\ \E valid \in BOOLEAN :
       IF valid THEN Continue("validateConfig", <<>>)
       ELSE Exit("Invalid configuration")
  /\ UNCHANGED <<entry, opts, config>>
  /\ UNCHANGED <<gitVars, pluginVars, analysisVars, percentageVars, callVars>>

CliCheckRepo ==
  /\ At({"cli"}, "checkRepo")
  /\ \E isGitRepository \in BOOLEAN :
       IF isGitRepository THEN Continue("checkRepo", <<>>)
       ELSE Exit("Not a git repository")
  /\ UNCHANGED <<entry, opts, config>>
  /\ UNCHANGED <<gitVars, pluginVars, analysisVars, percentageVars, callVars>>

\* PluginManager.loadPlugins: every plugin that loads is registered, the
\* others are logged and skipped; it never throws
loadPlugins(names) ==
  \E ok \in SUBSET names :
    \E withSync \in SUBSET ok :
      /\ loaded' = ok
      /\ syncers' = withSync
      /\ UNCHANGED <<syncState, syncCalls, hookRun, modules, lifecycle>>

CliLoadPlugins ==
  /\ At({"cli"}, "loadPlugins")
  /\ IF config.plugins > 0
       THEN loadPlugins(1..config.plugins)
       ELSE UNCHANGED pluginVars
  /\ Continue("loadPlugins", <<>>)
  /\ UNCHANGED <<entry, opts, config>>
  /\ UNCHANGED <<gitVars, analysisVars, percentageVars, callVars>>

CliStage ==
  /\ At({"cli"}, "stage")
  /\ IF ~opts.dryRun
       THEN \E ok \in BOOLEAN :
              IF ok THEN Continue("stage", <<"stage">>)
              ELSE Raise("stage", "stage", <<>>)
       ELSE Continue("stage", <<>>)
  /\ UNCHANGED <<entry, opts, config>>
  /\ UNCHANGED <<gitVars, pluginVars, analysisVars, percentageVars, callVars>>

CliGetDiff ==
  /\ At({"cli"}, "getDiff")
  /\ IF ~opts.dryRun
       THEN \E got \in {"changes", "none", "throws"} :
              CASE got = "changes" -> Continue("getDiff", <<"diff">>)
                [] got = "none" ->
                     Return(<<"diff">>, {"No changes to commit"}, "success")
                [] OTHER -> Raise("getDiff", "diff", <<>>)
       ELSE Continue("getDiff", <<>>)
  /\ UNCHANGED <<entry, opts, config>>
  /\ UNCHANGED <<gitVars, pluginVars, analysisVars, percentageVars, callVars>>

\* a sequential loop over hookPlugins without a try/catch of its own: it
\* stops at the first hook that throws
HookInvokedFailFast(hookPlugins, throwers) ==
  {p \in hookPlugins : \A q \in throwers : p <= q}

\* hookPlugins.map(async ...): the hook of every plugin is called, whatever
\* the others do; each call has a try/catch of its own
HookInvoked(hookPlugins, throwers) == hookPlugins

\* what a runHook call does with the plugins
HookRecord(name, hookPlugins, throwers) ==
  [name |-> name,
   implementing |-> hookPlugins,
   invoked |-> HookInvoked(hookPlugins, throwers),
   threw |-> throwers \cap HookInvoked(hookPlugins, throwers)]

\* PluginManager.runHook(name), called at statement p: throwers are the
\* plugins whose hook throws or rejects.  Every exception is caught and
\* logged, Promise.all has no promise that rejects, and runHook returns.  (A
\* loaded plugin without the hook is left out of hookPlugins by the filter:
\* for the workflow it is like a plugin whose hook returns, and is taken as
\* one here.)
runHook(p, name) ==
  \E throwers \in SUBSET loaded :
    /\ hookRun' = HookRecord(name, loaded, throwers)
    /\ Continue(p, <<name>>)
    /\ UNCHANGED <<loaded, syncers, syncState, syncCalls>>
    /\ UNCHANGED <<modules, lifecycle>>

\* await pluginManager.beforeAnalysis(context)
CliBeforeAnalysis ==
  /\ At({"cli"}, "beforeAnalysis")
  /\ runHook("beforeAnalysis", "beforeAnalysis")
  /\ UNCHANGED <<entry, opts, config>>
  /\ UNCHANGED <<gitVars, analysisVars, percentageVars, callVars>>

CliAnalysis ==
  /\ At({"cli"}, "analysis")
  /\ IF opts.analysis /\ config.analysisEnabled /\ ~opts.dryRun
       THEN \E ok \in BOOLEAN :
              IF ok
                THEN /\ Continue("analysis", <<"analyze">>)
                     /\ analysisResult' = TRUE
                ELSE /\ Raise("analysis", "analyze", <<>>)
                     /\ UNCHANGED analysisResult
       ELSE /\ Continue("analysis", <<>>)
            /\ UNCHANGED analysisResult
  /\ UNCHANGED <<entry, opts, config, commitInfo, committed, pushed>>
  /\ UNCHANGED <<pluginVars, analysisVars, percentageVars, callVars>>

\* if (analysisResult) await pluginManager.afterAnalysis(analysisResult)
CliAfterAnalysis ==
  /\ At({"cli"}, "afterAnalysis")
  /\ IF analysisResult
       THEN runHook("afterAnalysis", "afterAnalysis")
       ELSE /\ Continue("afterAnalysis", <<>>)
            /\ UNCHANGED pluginVars
  /\ UNCHANGED <<entry, opts, config>>
  /\ UNCHANGED <<gitVars, analysisVars, percentageVars, callVars>>

\* generateAndSave, then git.stage([analysisFile])
CliReport ==
  /\ At({"cli"}, "report")
  /\ IF opts.analysis /\ analysisResult /\ config.analysisEnabled
         /\ ~opts.dryRun
       THEN \E got \in {"ok", "report throws", "stage throws"} :
              CASE got = "ok" -> Continue("report", <<"report", "stageReport">>)
                [] got = "report throws" -> Raise("report", "report", <<>>)
                [] OTHER -> Raise("report", "stageReport", <<"report">>)
       ELSE Continue("report", <<>>)
  /\ UNCHANGED <<entry, opts, config>>
  /\ UNCHANGED <<gitVars, pluginVars, analysisVars, percentageVars, callVars>>

\* PluginManager.destroy
destroy ==
  /\ loaded' = {}
  /\ UNCHANGED <<syncers, syncState, syncCalls, hookRun, modules, lifecycle>>

CliAnalyzeOnly ==
  /\ At({"cli"}, "analyzeOnly")
  /\ IF opts.analyzeOnly
       THEN /\ Return(<<"destroy">>, {}, "success")
            /\ destroy
       ELSE /\ Continue("analyzeOnly", <<>>)
            /\ UNCHANGED pluginVars
  /\ UNCHANGED <<entry, opts, config>>
  /\ UNCHANGED <<gitVars, analysisVars, percentageVars, callVars>>

\* await pluginManager.beforeCommit(commitContext)
CliBeforeCommit ==
  /\ At({"cli"}, "beforeCommit")
  /\ runHook("beforeCommit", "beforeCommit")
  /\ UNCHANGED <<entry, opts, config>>
  /\ UNCHANGED <<gitVars, analysisVars, percentageVars, callVars>>

\* git.commit, then git.getShortSHA and git.getAuthor
CliCommit ==
  /\ At({"cli"}, "commit")
  /\ IF ~opts.dryRun
       THEN \E got \in {"ok", "commit throws", "info throws"} :
              CASE got = "ok" ->
                     /\ Continue("commit", <<"commit">>)
                     /\ committed' = TRUE
                     /\ commitInfo' = TRUE
                [] got = "commit throws" ->
                     /\ Raise("commit", "commit", <<>>)
                     /\ UNCHANGED <<committed, commitInfo>>
                [] OTHER ->
                     /\ Raise("commit", "commitInfo", <<"commit">>)
                     /\ committed' = TRUE
                     /\ UNCHANGED commitInfo
       ELSE /\ Continue("commit", <<>>)
            /\ UNCHANGED <<committed, commitInfo>>
  /\ UNCHANGED <<entry, opts, config, analysisResult, pushed>>
  /\ UNCHANGED <<pluginVars, analysisVars, percentageVars, callVars>>

\* if (commitInfo) await pluginManager.afterCommit(commitInfo)
CliAfterCommit ==
  /\ At({"cli"}, "afterCommit")
  /\ IF commitInfo
       THEN runHook("afterCommit", "afterCommit")
       ELSE /\ Continue("afterCommit", <<>>)
            /\ UNCHANGED pluginVars
  /\ UNCHANGED <<entry, opts, config>>
  /\ UNCHANGED <<gitVars, analysisVars, percentageVars, callVars>>

\* ---- PluginManager.sync

\* whether the workflow calls pluginManager.sync
CallsSync ==
  IF entry = "cli"
    THEN commitInfo /\ analysisResult /\ Cardinality(loaded) > 0
    ELSE opts.syncPlugins /\ config.plugins > 0

\* syncPlugins: the loaded plugins whose sync is a function
SyncPlugins == loaded \cap syncers

Settled == {"ok", "failed", "rejected", "threw"}

\* a sequential, fail-fast loop over syncPlugins: no plugin is called once
\* one call has thrown
CanInvokeFailFast(p) ==
  /\ p \in SyncPlugins
  /\ syncState[p] = "none"
  /\ \A q \in SyncPlugins : q < p => syncState[q] # "none"
  /\ \A q \in SyncPlugins : syncState[q] # "threw"

\* syncPlugins.map(async ...) calls each plugin's sync, in order, before any
\* of the calls completes
CanInvoke(p) ==
  /\ p \in SyncPlugins
  /\ syncState[p] = "none"
  /\ \A q \in SyncPlugins : q < p => syncState[q] # "none"

\* Promise.allSettled has every promise of the map settled
SyncFinished ==
  /\ \A p \in Plugins : ~CanInvoke(p)
  /\ \A p \in SyncPlugins : syncState[p] # "pending"

SyncStart ==
  /\ At({"cli", "full"}, "sync")
  /\ IF CallsSync
       THEN IF SyncPlugins = {}
              THEN Continue("sync", <<"sync">>)
              ELSE Step("syncing", <<"sync">>, {}, {}, {}, outcome)
       ELSE Continue("sync", <<>>)
  /\ UNCHANGED <<entry, opts, config>>
  /\ UNCHANGED <<gitVars, pluginVars, analysisVars, percentageVars, callVars>>

\* plugin.sync!(data) is called; it may throw at once, which the try/catch
\* of the mapped function turns into a result
SyncInvoke(p) ==
  /\ At({"cli", "full"}, "syncing")
  /\ CanInvoke(p)
  /\ syncCalls' = [syncCalls EXCEPT ![p] = @ + 1]
  /\ \E throws \in BOOLEAN :
       /\ syncState' = [syncState EXCEPT
                          ![p] = IF throws THEN "threw" ELSE "pending"]
       /\ Step(pc, <<>>, IF throws THEN {"sync"} ELSE {}, {},
               IF throws THEN {"sync"} ELSE {}, outcome)
  /\ UNCHANGED <<entry, opts, config, loaded, syncers, hookRun>>
  /\ UNCHANGED <<modules, lifecycle>>
  /\ UNCHANGED <<gitVars, analysisVars, percentageVars, callVars>>

\* the promise of a sync call settles: success, a result with success false,
\* or a rejection, which the try/catch turns into a result (logger.error in
\* the last two cases)
SyncSettle(p) ==
  /\ At({"cli", "full"}, "syncing")
  /\ \A q \in Plugins : ~CanInvoke(q)
  /\ p \in SyncPlugins
  /\ syncState[p] = "pending"
  /\ \E got \in {"ok", "failed", "rejected"} :
       /\ syncState' = [syncState EXCEPT ![p] = got]
       /\ Step(pc, <<>>, IF got = "ok" THEN {} ELSE {"sync"}, {},
               IF got = "ok" THEN {} ELSE {"sync"}, outcome)
  /\ UNCHANGED <<entry, opts, config, loaded, syncers, syncCalls, hookRun>>
  /\ UNCHANGED <<modules, lifecycle>>
  /\ UNCHANGED <<gitVars, analysisVars, percentageVars, callVars>>

\* every mapped promise is fulfilled, so failed is 0 and the summary is
\* logger.success; sync returns undefined
SyncReturn ==
  /\ At({"cli", "full"}, "syncing")
  /\ SyncFinished
  /\ Continue("sync", <<>>)
  /\ UNCHANGED <<entry, opts, config>>
  /\ UNCHANGED <<gitVars, pluginVars, analysisVars, percentageVars, callVars>>

\* ---- push and the end of commitCommand

\* push without the test of dryRun: a dry run would push
CallsPushInDryRun ==
  IF entry = "cli"
    THEN opts.push /\ config.autoPush
    ELSE opts.push \/ config.autoPush

\* whether the workflow calls git.push
CallsPush ==
  IF entry = "cli"
    THEN opts.push /\ config.autoPush /\ ~opts.dryRun
    ELSE opts.push \/ config.autoPush

Push ==
  /\ At({"cli", "full"}, "push")
  /\ IF CallsPush
       THEN \E ok \in BOOLEAN :
              IF ok
                THEN /\ Continue("push", <<"push">>)
                     /\ pushed' = TRUE
                ELSE /\ Raise("push", "push", <<"push">>)
                     /\ UNCHANGED pushed
       ELSE /\ Continue("push", <<>>)
            /\ UNCHANGED pushed
  /\ UNCHANGED <<entry, opts, config, analysisResult, commitInfo, committed>>
  /\ UNCHANGED <<pluginVars, analysisVars, percentageVars, callVars>>

CliDestroy ==
  /\ At({"cli"}, "destroy")
  /\ Return(<<"destroy">>, {}, "success")
  /\ destroy
  /\ UNCHANGED <<entry, opts, config>>
  /\ UNCHANGED <<gitVars, analysisVars, percentageVars, callVars>>

\* ---- fullHandler and commitHandler

McpStage ==
  /\ At(Mcp, "stage")
  /\ \E ok \in BOOLEAN :
       IF ok THEN Continue("stage", <<"stage">>)
       ELSE Raise("stage", "stage", <<>>)
  /\ UNCHANGED <<entry, opts, config>>
  /\ UNCHANGED <<gitVars, pluginVars, analysisVars, percentageVars, callVars>>

McpGetDiff ==
  /\ At(Mcp, "getDiff")
  /\ \E got \in {"changes", "none", "throws"} :
       CASE got = "changes" -> Continue("getDiff", <<"diff">>)
         [] got = "none" ->
              Step("done", <<"diff">>, {}, {}, {"No changes to commit"},
                   "failure")
         [] OTHER -> Raise("getDiff", "diff", <<>>)
  /\ UNCHANGED <<entry, opts, config>>
  /\ UNCHANGED <<gitVars, pluginVars, analysisVars, percentageVars, callVars>>

FullAnalysis ==
  /\ At({"full"}, "analysis")
  /\ \E ok \in BOOLEAN :
       IF ok
         THEN /\ Continue("analysis", <<"analyze">>)
              /\ analysisResult' = TRUE
         ELSE /\ Raise("analysis", "analyze", <<>>)
              /\ UNCHANGED analysisResult
  /\ UNCHANGED <<entry, opts, config, commitInfo, committed, pushed>>
  /\ UNCHANGED <<pluginVars, analysisVars, percentageVars, callVars>>

\* args.message or generateCommitMessage
FullMessage ==
  /\ At({"full"}, "message")
  /\ Continue("message", <<>>)
  /\ UNCHANGED <<entry, opts, config>>
  /\ UNCHANGED <<gitVars, pluginVars, analysisVars, percentageVars, callVars>>

\* git.getCurrentBranch and reportGenerator.generateAndSave
FullReport ==
  /\ At({"full"}, "report")
  /\ \E ok \in BOOLEAN :
       IF ok THEN Continue("report", <<"report">>)
       ELSE Raise("report", "report", <<>>)
  /\ UNCHANGED <<entry, opts, config>>
  /\ UNCHANGED <<gitVars, pluginVars, analysisVars, percentageVars, callVars>>

\* commitHandler: analysis and report unless skipAnalysis
HandlerAnalysis ==
  /\ At({"handler"}, "analysis")
  /\ IF ~opts.skipAnalysis
       THEN \E got \in {"ok", "analyze throws", "report throws"} :
              CASE got = "ok" ->
                     /\ Continue("analysis", <<"analyze", "report">>)
                     /\ analysisResult' = TRUE
                [] got = "analyze throws" ->
                     /\ Raise("analysis", "analyze", <<>>)
                     /\ UNCHANGED analysisResult
                [] OTHER ->
                     /\ Raise("analysis", "report", <<"analyze">>)
                     /\ analysisResult' = TRUE
       ELSE /\ Continue("analysis", <<>>)
            /\ UNCHANGED analysisResult
  /\ UNCHANGED <<entry, opts, config, commitInfo, committed, pushed>>
  /\ UNCHANGED <<pluginVars, analysisVars, percentageVars, callVars>>

McpCommit ==
  /\ At(Mcp, "commit")
  /\ \E ok \in BOOLEAN :
       IF ok
         THEN /\ IF entry = "handler"
                   THEN Return(<<"commit">>, {}, "success")
                   ELSE Continue("commit", <<"commit">>)
              /\ committed' = TRUE
              /\ commitInfo' = TRUE
         ELSE /\ Raise("commit", "commit", <<>>)
              /\ UNCHANGED <<committed, commitInfo>>
  /\ UNCHANGED <<entry, opts, config, analysisResult, pushed>>
  /\ UNCHANGED <<pluginVars, analysisVars, percentageVars, callVars>>

\* new PluginManager(...).loadPlugins(config.plugins), in the plugin block
FullLoadPlugins ==
  /\ At({"full"}, "loadPlugins")
  /\ IF CallsSync
       THEN loadPlugins(1..config.plugins)
       ELSE UNCHANGED pluginVars
  /\ Continue("loadPlugins", <<>>)
  /\ UNCHANGED <<entry, opts, config>>
  /\ UNCHANGED <<gitVars, analysisVars, percentageVars, callVars>>

FullReturn ==
  /\ At({"full"}, "return")
  /\ Return(<<>>, {}, "success")
  /\ UNCHANGED <<entry, opts, config>>
  /\ UNCHANGED <<gitVars, pluginVars, analysisVars, percentageVars, callVars>>

\* ---- the workflow specification

CliOptions ==
  [message : BOOLEAN, analysis : BOOLEAN, push : BOOLEAN,
   analyzeOnly : BOOLEAN, dryRun : BOOLEAN, syncPlugins : {TRUE},
   skipAnalysis : {FALSE}]

FullOptions ==
  [message : BOOLEAN, analysis : {TRUE}, push : BOOLEAN,
   analyzeOnly : {FALSE}, dryRun : {FALSE}, syncPlugins : BOOLEAN,
   skipAnalysis : {FALSE}]

HandlerOptions ==
  [message : BOOLEAN, analysis : {TRUE}, push : {FALSE},
   analyzeOnly : {FALSE}, dryRun : {FALSE}, syncPlugins : {TRUE},
   skipAnalysis : BOOLEAN]

Configs ==
  [analysisEnabled : BOOLEAN, autoPush : BOOLEAN, plugins : 0..NumPlugins]

Init ==
  /\ entry \in {"cli", "full", "handler"}
  /\ opts \in (CASE entry = "cli" -> CliOptions
                 [] entry = "full" -> FullOptions
                 [] OTHER -> HandlerOptions)
  /\ config \in Configs
  /\ pc = Order(entry)[1]
  /\ steps = <<>>
  /\ failed = {}
  /\ outcome = "running"
  /\ warnings = {}
  /\ errors = {}
  /\ analysisResult = FALSE
  /\ commitInfo = FALSE
  /\ committed = FALSE
  /\ pushed = FALSE
  /\ loaded = {}
  /\ syncers = {}
  /\ syncState = [p \in Plugins |-> "none"]
  /\ syncCalls = [p \in Plugins |-> 0]
  /\ hookRun = NoHook
  /\ modules = [p \in Plugins |-> AnyModule]
  /\ lifecycle = [p \in Plugins |-> <<>>]
  /\ AnalysisIdle
  /\ PercentageIdle
  /\ CallsIdle

Next ==
  \/ CliValidateMessage
  \/ LoadConfig
  \/ CliValidateConfig
  \/ CliCheckRepo
  \/ CliLoadPlugins
  \/ CliStage
  \/ CliGetDiff
  \/ CliBeforeAnalysis
  \/ CliAnalysis
  \/ CliAfterAnalysis
  \/ CliReport
  \/ CliAnalyzeOnly
  \/ CliBeforeCommit
  \/ CliCommit
  \/ CliAfterCommit
  \/ SyncStart
  \/ \E p \in Plugins : SyncInvoke(p)
  \/ \E p \in Plugins : SyncSettle(p)
  \/ SyncReturn
  \/ Push
  \/ CliDestroy
  \/ McpStage
  \/ McpGetDiff
  \/ FullAnalysis
  \/ FullMessage
  \/ FullReport
  \/ HandlerAnalysis
  \/ McpCommit
  \/ FullLoadPlugins
  \/ FullReturn

Spec == Init /\ [][Next]_vars

\* ------------------------------------------------------------------------
\* PluginManager.loadPlugins and loadPlugin, plugin by plugin.
\* ------------------------------------------------------------------------

\* A plugin module: whether import(name) succeeds, whether it has a default
\* export, whether the instance has a name and a version, what its init does
\* ("none" when it has no init) and what its validate does.
Module(imports, hasDefault, metadata, initDoes, validateDoes) ==
  [imports |-> imports, hasDefault |-> hasDefault, metadata |-> metadata,
   init |-> initDoes, validate |-> validateDoes]

ModuleKinds ==
  { Module(FALSE, FALSE, FALSE, "none", "none"),
    Module(TRUE, FALSE, FALSE, "none", "none"),
    Module(TRUE, TRUE, FALSE, "ok", "valid"),
    Module(TRUE, TRUE, TRUE, "throws", "valid"),
    Module(TRUE, TRUE, TRUE, "ok", "invalid"),
    Module(TRUE, TRUE, TRUE, "ok", "throws"),
    Module(TRUE, TRUE, TRUE, "none", "invalid"),
    Module(TRUE, TRUE, TRUE, "ok", "valid"),
    Module(TRUE, TRUE, TRUE, "ok", "none"),
    Module(TRUE, TRUE, TRUE, "none", "valid"),
    Module(TRUE, TRUE, TRUE, "none", "none") }

\* loadPlugin throws after the steps done
LoadFailed(done) == [calls |-> done, registered |-> FALSE]

\* the steps up to and including init
InitSteps(m) ==
  <<"import", "new">> \o (IF m.init # "none" THEN <<"init">> ELSE <<>>)

\* the validate step, when the plugin has a validate
ValidateSteps(m) == IF m.validate # "none" THEN <<"validate">> ELSE <<>>

\* loadPlugin with this.plugins.set in front of the validation
loadPluginRegisterFirst(m) ==
  IF ~m.imports \/ ~m.hasDefault THEN LoadFailed(<<"import">>)
  ELSE IF ~m.metadata THEN LoadFailed(<<"import", "new">>)
  ELSE IF m.init = "throws" THEN LoadFailed(InitSteps(m))
  ELSE [calls |-> InitSteps(m) \o <<"set">> \o ValidateSteps(m),
        registered |-> TRUE]

\* loadPlugin(name) for a module m: the steps taken, in order, and whether
\* the plugin is in this.plugins afterwards.  Every failure is thrown, and
\* this.plugins.set is the last step.
loadPlugin(m) ==
  IF ~m.imports \/ ~m.hasDefault THEN LoadFailed(<<"import">>)
  ELSE IF ~m.metadata THEN LoadFailed(<<"import", "new">>)
  ELSE IF m.init = "throws" THEN LoadFailed(InitSteps(m))
  ELSE IF m.validate \in {"invalid", "throws"}
    THEN LoadFailed(InitSteps(m) \o ValidateSteps(m))
  ELSE [calls |-> InitSteps(m) \o ValidateSteps(m) \o <<"set">>,
        registered |-> TRUE]

\* one iteration of the loop of loadPlugins: loadPlugin(name) in its
\* try/catch, which logs the failure and goes on
PluginLoad(p) ==
  /\ entry = "plugins"
  /\ pc = "loadPlugins"
  /\ p \in 1..config.plugins
  /\ lifecycle[p] = <<>>
  /\ \A q \in 1..(p - 1) : lifecycle[q] # <<>>
  /\ lifecycle' = [lifecycle EXCEPT ![p] = loadPlugin(modules[p]).calls]
  /\ loaded' = IF loadPlugin(modules[p]).registered
                 THEN loaded \cup {p} ELSE loaded
  /\ errors' = IF loadPlugin(modules[p]).registered THEN errors
               ELSE errors \cup {"Failed to load plugin"}
  /\ UNCHANGED <<entry, opts, config, pc, steps, failed, outcome, warnings>>
  /\ UNCHANGED <<syncers, syncState, syncCalls, hookRun, modules>>
  /\ UNCHANGED <<gitVars, analysisVars, percentageVars, callVars>>

\* the loop of loadPlugins is over
PluginsLoaded ==
  /\ entry = "plugins"
  /\ pc = "loadPlugins"
  /\ \A q \in 1..config.plugins : lifecycle[q] # <<>>
  /\ pc' = "runHook"
  /\ UNCHANGED <<entry, opts, config, steps, failed, outcome, warnings, errors>>
  /\ UNCHANGED <<gitVars, pluginVars, analysisVars, percentageVars, callVars>>

\* a runHook call on the manager
PluginsHook ==
  /\ entry = "plugins"
  /\ pc = "runHook"
  /\ \E hookPlugins \in SUBSET loaded :
       \E throwers \in SUBSET hookPlugins :
         hookRun' = HookRecord("beforeAnalysis", hookPlugins, throwers)
  /\ pc' = "done"
  /\ UNCHANGED <<entry, opts, config, steps, failed, outcome, warnings, errors>>
  /\ UNCHANGED <<loaded, syncers, syncState, syncCalls, modules, lifecycle>>
  /\ UNCHANGED <<gitVars, analysisVars, percentageVars, callVars>>

InitPlugins ==
  /\ entry = "plugins"
  /\ opts = NoOptions
  /\ config = [analysisEnabled |-> TRUE, autoPush |-> FALSE,
               plugins |-> NumPlugins]
  /\ pc = "loadPlugins"
  /\ steps = <<>>
  /\ failed = {}
  /\ outcome = "running"
  /\ warnings = {}
  /\ errors = {}
  /\ analysisResult = FALSE
  /\ commitInfo = FALSE
  /\ committed = FALSE
  /\ pushed = FALSE
  /\ loaded = {}
  /\ syncers = {}
  /\ syncState = [p \in Plugins |-> "none"]
  /\ syncCalls = [p \in Plugins |-> 0]
  /\ hookRun = NoHook
  /\ modules \in [Plugins -> ModuleKinds]
  /\ lifecycle = [p \in Plugins |-> <<>>]
  /\ AnalysisIdle
  /\ PercentageIdle
  /\ CallsIdle

NextPlugins ==
  \/ \E p \in Plugins : PluginLoad(p)
  \/ PluginsLoaded
  \/ PluginsHook

SpecPlugins == InitPlugins /\ [][NextPlugins]_vars

\* ------------------------------------------------------------------------
\* Properties.
\* ------------------------------------------------------------------------

Range(s) == {s[k] : k \in 1..Len(s)}

\* every a in steps comes before every b in steps
Precedes(a, b) ==
  \A i, j \in 1..Len(steps) : steps[i] = a /\ steps[j] = b => i < j

MainSteps == <<"analyze", "report", "commit", "sync", "push">>

\* C1: in a run of commitCommand or fullHandler the steps that execute occur
\* in the order analyze, report, commit, sync, push, each at most once; the
\* commit is not created before the analysis and the report that the run
\* makes, and neither sync nor push starts unless the commit has been created.
StepsInOrder ==
  entry \in {"cli", "full"} =>
    /\ \A a, b \in 1..Len(MainSteps) :
         a < b => Precedes(MainSteps[a], MainSteps[b])
    /\ \A i, j \in 1..Len(steps) :
         steps[i] = steps[j] /\ steps[i] \in Range(MainSteps) => i = j
    /\ Precedes("stageReport", "commit")
    /\ ("sync" \in Range(steps) \/ "push" \in Range(steps)) =>
         committed /\ "commit" \in Range(steps)
    /\ committed =>
         /\ (entry = "full" \/ (opts.analysis /\ config.analysisEnabled)) =>
              {"analyze", "report"} \subseteq Range(steps)
         /\ (entry = "cli" /\ "analyze" \in Range(steps)) =>
              "stageReport" \in Range(steps)

\* a run of commitCommand that made all five steps
AllStepsRun ==
  /\ entry = "cli"
  /\ outcome = "success"
  /\ steps = <<"stage", "diff", "beforeAnalysis", "analyze", "afterAnalysis",
               "report", "stageReport", "beforeCommit", "commit",
               "afterCommit", "sync", "push", "destroy">>
  /\ pushed

\* C2: when git.commit fails the run reports failure, no commit exists, and
\* no afterCommit hook, plugin sync or push is executed in that run.
CommitFailureAborts ==
  "commit" \in failed =>
    /\ outcome = "failure"
    /\ ~committed
    /\ Range(steps) \cap {"commit", "afterCommit", "sync", "push"} = {}
    /\ \A p \in Plugins : syncCalls[p] = 0
    /\ pc = "done"

\* git.commit failed in a run that was going to sync and push
CommitFailed ==
  /\ "commit" \in failed
  /\ entry = "full"
  /\ opts.push
  /\ opts.syncPlugins
  /\ config.plugins > 0

\* C3: when the commit was created and git.push then fails, the commit is
\* kept, the failure is a warning and not an error of the run, and the run
\* ends in success.
PushFailureIsWarning ==
  "push" \in failed =>
    /\ committed
    /\ "push" \in warnings
    /\ outcome # "failure"
    /\ errors \cap {"Error during commit", "error"} = {}
    /\ pc = "done" => outcome = "success"

\* a finished run whose push failed
PushFailed ==
  /\ "push" \in failed
  /\ pc = "done"
  /\ outcome = "success"
  /\ entry = "cli"

\* C4: when the commit was created and the sync of a plugin throws, rejects
\* or returns success false, the run ends in success and its result reports
\* the sync failure as a warning.
SyncFailureIsWarning ==
  (pc = "done" /\ committed /\ "sync" \in failed) =>
    /\ outcome = "success"
    /\ "sync" \in warnings

\* a finished run with a commit, in which a plugin's sync failed
SyncFailed ==
  /\ pc = "done"
  /\ committed
  /\ \E p \in Plugins : syncState[p] \in {"failed", "rejected", "threw"}

\* C5: a failure of generateAndSave does not abort the run: git.commit is
\* still called, and when the commit is created the run ends in success with
\* the report failure as a warning.
ReportFailureDoesNotAbort ==
  (pc = "done" /\ "report" \in failed) =>
    /\ "commit" \in Range(steps) \/ "commit" \in failed
    /\ committed => outcome = "success" /\ "report" \in warnings

\* a finished run whose report could not be generated
ReportFailed == pc = "done" /\ "report" \in failed /\ outcome = "failure"

\* pluginManager.sync was called and has returned
SyncReturned == "sync" \in Range(steps) /\ pc \notin {"sync", "syncing"}

\* C6: PluginManager.sync invokes the sync of every loaded plugin that has
\* one exactly once, and of no other plugin, in whatever order the calls
\* complete; it returns only when every call has settled, and a plugin whose
\* sync throws, rejects or reports failure keeps no other plugin's sync from
\* being invoked or from completing.
EverySyncInvokedOnce ==
  /\ \A p \in Plugins : syncCalls[p] <= 1
  /\ \A p \in Plugins : syncCalls[p] = 1 => p \in syncers
  /\ (SyncReturned /\ loaded # {}) =>
       \A p \in SyncPlugins : syncCalls[p] = 1 /\ syncState[p] \in Settled
  /\ pc = "syncing" =>
       \A p \in SyncPlugins :
         \/ syncState[p] \in Settled
         \/ ENABLED SyncInvoke(p)
         \/ ENABLED SyncSettle(p)
         \/ \E q \in SyncPlugins : q # p /\ ENABLED SyncInvoke(q)

\* sync has returned after the first plugin's sync threw and the second
\* plugin's sync, invoked after it, succeeded
SyncAfterThrow ==
  /\ SyncReturned
  /\ syncState[1] = "threw"
  /\ syncState[2] = "ok"
  /\ syncCalls[1] = 1
  /\ syncCalls[2] = 1

\* the changed files that match an exclusion pattern
ExcludedFiles ==
  {files[k] : k \in {i \in 1..Len(files) : SomeTest(EXCLUDED_PATTERNS, files[i])}}

KeptFiles == SelectSeq(files, LAMBDA file : ~SomeTest(EXCLUDED_PATTERNS, file))

\* C7: a changed file that matches an exclusion pattern appears in no
\* technicalDebt[].file, no risks[].affectedFiles, not in
\* testCoverage.testFiles or missingTests, and does not contribute to
\* architectureImpact.areas.
ExcludedNeverReported ==
  result # NotRun =>
    /\ \A k \in 1..Len(result.technicalDebt) :
         LET item == result.technicalDebt[k]
         IN item.file.def => item.file.text \notin ExcludedFiles
    /\ \A k \in 1..Len(result.risks) :
         Range(result.risks[k].affectedFiles) \cap ExcludedFiles = {}
    /\ Range(result.testCoverage.testFiles) \cap ExcludedFiles = {}
    /\ Range(result.testCoverage.missingTests) \cap ExcludedFiles = {}
    /\ result.architectureImpact.areas = analyzeArchitecture(KeptFiles).areas

\* an analysis of a change set with an excluded file
ExcludedAnalyzed == result # NotRun /\ ExcludedFiles # {}

\* the lines of the diff that begin with +
AddedLines ==
  LET diffLines == Split(diff, "\n")
  IN {diffLines[k] : k \in {i \in 1..Len(diffLines) :
                              StartsWith(diffLines[i], <<"+">>)}}

\* an added line matches a technical-debt rule of DEFAULT_RULES
AddedLineMatches ==
  \E line \in AddedLines :
    \E k \in 1..Len(DEFAULT_RULES) :
      /\ isTechnicalDebtRule(DEFAULT_RULES[k].category)
      /\ Test(DEFAULT_RULES[k].pattern, line)

\* C8: with the default rules, a diff in which no added line matches a
\* technical-debt rule yields an empty technicalDebt list, whatever its
\* removed lines, context lines and headers contain.
OnlyAddedLinesFlagged ==
  (result # NotRun /\ ~AddedLineMatches) => result.technicalDebt = <<>>

\* an analysis of a diff with no added line that matches a rule
NoAddedLineMatched == result # NotRun /\ diff # <<>> /\ ~AddedLineMatches

\* round(100 * (n - m) / n), halves upward; 100 when n = 0
ExactPercentage(n, m) ==
  IF n = 0 THEN 100 ELSE (200 * (n - m) + n) \div (2 * n)

\* C9: coveragePercentage is an integer in 0..100 equal to
\* round(100 * (N - M) / N) for N source files of which M are in
\* missingTests, and 100 when N = 0.
PercentageIsRounded ==
  percentage # -1 =>
    /\ percentage \in 0..100
    /\ percentage = ExactPercentage(sourceCount, missingCount)

\* the percentage was computed for some source files
PercentageComputed == percentage # -1 /\ sourceCount > 0

\* the test sibling of a file: name.test.ext for name.ext
TestSibling(file) ==
  LET dot == LastIndexOfChar(file, ".")
  IN SubSeq(file, 1, dot - 1) \o <<".", "t", "e", "s", "t">>
       \o SubSeq(file, dot, Len(file))

\* C10: a file that matches a test-file pattern is not counted as a source
\* file and not listed in missingTests; for k source files with their .test.
\* sibling in the change set and m source files with no test variant in it,
\* coveragePercentage is round(100 * k / (k + m)).
SourceAndTestPartition ==
  result # NotRun =>
    LET isTest(file) == SomeTest(TEST_FILE_PATTERNS, file)
        sources == SelectSeq(KeptFiles, LAMBDA file :
                     SomeTest(SOURCE_FILE_PATTERNS, file) /\ ~isTest(file))
        withSibling == SelectSeq(sources, LAMBDA file :
                         SeqIncludes(KeptFiles, TestSibling(file)))
        without == SelectSeq(sources, LAMBDA file :
                     \A k \in 1..Len(getTestFileVariations(file)) :
                       ~SeqIncludes(KeptFiles, getTestFileVariations(file)[k]))
    IN /\ \A k \in 1..Len(result.testCoverage.missingTests) :
            ~isTest(result.testCoverage.missingTests[k])
       /\ (Len(withSibling) + Len(without) = Len(sources)) =>
            result.testCoverage.coveragePercentage =
              ExactPercentage(Len(sources), Len(without))

\* an analysis of a source file changed together with its test sibling
SiblingAnalyzed ==
  /\ result # NotRun
  /\ \E i, j \in 1..Len(files) : files[j] = TestSibling(files[i])

\* String.prototype.toLowerCase
Lower(str) ==
  [k \in 1..Len(str) |->
     IF str[k] \in UpperLetters
       THEN CHOOSE c \in BothCases(str[k]) : c # str[k]
       ELSE str[k]]

\* some analysed file has one of the words in its path, whatever the case
GroupMatched(words) ==
  \E k \in 1..Len(KeptFiles) :
    \E w \in words : Includes(Lower(KeptFiles[k]), w)

LevelRank(level) ==
  CASE level = "LOW" -> 0 [] level = "MEDIUM" -> 1 [] OTHER -> 2

\* files without its k-th element
Without(k) == SubSeq(files, 1, k - 1) \o SubSeq(files, k + 1, Len(files))

\* C11: architectureImpact.level is the maximum severity over the area
\* groups matched by the filtered files (core or database: HIGH; only api or
\* config: MEDIUM; none: LOW with empty areas), removing a file never raises
\* the level, and requiresReview is true exactly when the core or the
\* database group matched.
ArchitectureLevelIsMaximum ==
  result # NotRun =>
    LET impact == result.architectureImpact
        core == GroupMatched({<<"c","o","r","e">>, <<"s","e","r","v","i","c","e","s">>, <<"i","n","f","r","a","s","t","r","u","c","t","u","r","e">>,
                              <<"s","h","a","r","e","d">>})
        api == GroupMatched({<<"a","p","i">>, <<"e","n","d","p","o","i","n","t","s">>, <<"r","o","u","t","e","s">>, <<"c","o","n","t","r","o","l","l","e","r","s">>})
        conf == GroupMatched({<<"c","o","n","f","i","g">>, <<"s","e","t","t","i","n","g","s">>, <<".","e","n","v">>})
        db == GroupMatched({<<"m","i","g","r","a","t","i","o","n">>, <<"s","c","h","e","m","a">>, <<"m","o","d","e","l","s">>})
    IN /\ impact.level = (IF core \/ db THEN "HIGH"
                          ELSE IF api \/ conf THEN "MEDIUM" ELSE "LOW")
       /\ impact.requiresReview = (core \/ db)
       /\ (~core /\ ~api /\ ~conf /\ ~db) => impact.areas = <<>>
       /\ \A k \in 1..Len(files) :
            LevelRank(analyzeArchitecture(filterFiles(Without(k))).level)
              <= LevelRank(impact.level)

\* an analysis in which the core group and the api group both matched
CoreAndApiChanged ==
  /\ result # NotRun
  /\ result.architectureImpact.areas = <<"Core Services", "API">>

\* C12: analyze is a function of the diff, the changed files and the rules:
\* two calls with the same inputs, on one Analyzer or on two built with the
\* same rules, return the same result whatever was called in between, and no
\* call leaves state behind in the rule objects.
AnalyzeIsPure ==
  /\ \A i, j \in 1..Len(calls) :
       (calls[i].diff = calls[j].diff /\ calls[i].files = calls[j].files)
         => calls[i].result = calls[j].result
  /\ ruleObjects = DEFAULT_RULES

\* three calls, the first and the last on different instances with the same
\* inputs and a finding, another call in between
RepeatedCall ==
  /\ Len(calls) = 3
  /\ calls[1].instance # calls[3].instance
  /\ calls[1].diff = calls[3].diff
  /\ calls[1].files = calls[3].files
  /\ calls[2].diff # calls[1].diff
  /\ calls[1].result.technicalDebt # <<>>
  /\ calls[2].result.technicalDebt # <<>>

RunRules == Analyzer(ruleConfig.customRules)

\* the items of result.technicalDebt whose type is name
ItemsOfType(name) ==
  SelectSeq(result.technicalDebt, LAMBDA item : item.type = name)

\* C14: technicalDebt holds exactly one item for each match of each rule
\* whose category is technical-debt, code-quality or documentation, none for
\* a rule of another category, and each item carries the name, the severity
\* and the category of its rule.
OneItemPerMatch ==
  "technicalDebt" \in DOMAIN result =>
    \A k \in 1..Len(RunRules) :
      LET rule == RunRules[k]
          items == ItemsOfType(Prop(rule, "name"))
      IN /\ Len(items) =
              (IF isTechnicalDebtRule(Prop(rule, "category"))
                 THEN Len(MatchAll(RegExpOf(rule), diff))
                 ELSE 0)
         /\ \A n \in 1..Len(items) :
              /\ items[n].severity = Prop(rule, "severity")
              /\ items[n].category = Prop(rule, "category")

\* an analysis has returned for a technical-debt rule whose pattern has no g
\* flag and matches two lines of the diff
TwoMatchesWithoutFlag ==
  /\ "technicalDebt" \in DOMAIN result
  /\ \E k \in 1..Len(RunRules) :
       /\ ~RunRules[k].global
       /\ isTechnicalDebtRule(Prop(RunRules[k], "category"))
       /\ Len(MatchAll(RegExpOf(RunRules[k]), diff)) = 2

\* the five risk areas: the type of their item, the words their pattern
\* looks for in a path (in lower case), their severity and their category
RiskAreas ==
  { [type |-> <<"D","a","t","a","b","a","s","e">>, severity |-> "HIGH", category |-> "data-loss",
     words |-> {<<"m","i","g","r","a","t","i","o","n">>, <<"s","c","h","e","m","a">>, <<"m","o","d","e","l">>, <<"d","a","t","a","b","a","s","e">>}],
    [type |-> <<"S","e","c","u","r","i","t","y">>, severity |-> "HIGH", category |-> "security",
     words |-> {<<"a","u","t","h">>, <<"s","e","c","u","r","i","t","y">>, <<"p","a","s","s","w","o","r","d">>, <<"e","n","c","r","y","p","t">>, <<"d","e","c","r","y","p","t">>,
                <<"s","e","s","s","i","o","n">>}],
    [type |-> <<"A","p","i">>, severity |-> "MEDIUM", category |-> "breaking-change",
     words |-> {<<"a","p","i">>, <<"e","n","d","p","o","i","n","t">>, <<"r","o","u","t","e">>, <<"c","o","n","t","r","o","l","l","e","r">>}],
    [type |-> <<"C","o","n","f","i","g">>, severity |-> "MEDIUM", category |-> "performance",
     words |-> {<<"c","o","n","f","i","g">>, <<"s","e","t","t","i","n","g","s">>, <<".","e","n","v">>}],
    [type |-> <<"I","n","f","r","a","s","t","r","u","c","t","u","r","e">>, severity |-> "HIGH",
     category |-> "breaking-change",
     words |-> {<<"d","o","c","k","e","r">>, <<"k","u","b","e","r","n","e","t","e","s">>, <<"k","8","s">>, <<"t","e","r","r","a","f","o","r","m">>,
                <<"d","e","p","l","o","y","m","e","n","t">>}] }

\* the analysed files whose path has one of the words, whatever the case
FilesOfArea(area) ==
  SelectSeq(KeptFiles,
            LAMBDA file : \E w \in area.words : Includes(Lower(file), w))

\* C15: for each of the five risk areas, risks holds one path-based item of
\* that area when some changed file that is not excluded matches the area,
\* and none otherwise; its affectedFiles are the matching files, and its
\* severity and category are those fixed for the area.
OneRiskPerArea ==
  result # NotRun =>
    \A area \in RiskAreas :
      LET items == SelectSeq(result.risks,
                             LAMBDA item : item.type = area.type)
          matching == FilesOfArea(area)
      IN IF matching = <<>> THEN items = <<>>
         ELSE /\ Len(items) = 1
              /\ items[1].affectedFiles = matching
              /\ items[1].severity = area.severity
              /\ items[1].category = area.category

\* an analysis in which one file matched two areas and an excluded file
\* matched as well
TwoAreasOneFile ==
  /\ result # NotRun
  /\ files = <<<<"c","o","n","f","i","g","/","d","o","c","k","e","r",".","e","n","v">>, <<"n","o","d","e","_","m","o","d","u","l","e","s","/","a","u","t","h","/","s","c","h","e","m","a",".","t","e","s","t",".","j","s">>>>
  /\ Len(result.risks) = 2

\* some custom rule of the configuration has no pattern or no severity
MalformedRule ==
  \E k \in 1..Len(ruleConfig.customRules) :
    {"pattern", "severity"} \ DOMAIN ruleConfig.customRules[k] # {}

\* C16: a custom rule without pattern or without severity is rejected with
\* a configuration error when the configuration is loaded: the run never
\* gets past the validation of the configuration, to the analysis or beyond.
MalformedRuleRejected ==
  MalformedRule => rulePc \in {"validate", "exit"}

\* the analysis has returned normally for a configuration with a custom rule
\* that has no severity
MalformedRuleAnalyzed ==
  /\ rulePc = "done"
  /\ \E k \in 1..Len(ruleConfig.customRules) :
       "severity" \notin DOMAIN ruleConfig.customRules[k]

\* the custom rules of the configuration that are whole (name, string
\* pattern, severity, category technical-debt) and match an added line
MatchedJsonRules ==
  {k \in 1..Len(ruleConfig.customRules) :
     LET rule == ruleConfig.customRules[k] IN
     /\ ~rule.description
     /\ AllProps \subseteq DOMAIN rule
     /\ rule.category = "technical-debt"
     /\ \E line \in AddedLines : Test(rule.pattern, line)}

\* C17: a custom rule declared in the configuration file as a JSON object
\* with name, string pattern, severity and category technical-debt is
\* applied: when an added line of the diff contains the pattern, the
\* analysis completes without error and technicalDebt holds an item with the
\* name and the severity of the rule.
JsonRuleApplied ==
  \A k \in MatchedJsonRules :
    rulePc \in {"done", "threw"} =>
      /\ rulePc = "done"
      /\ \E n \in 1..Len(result.technicalDebt) :
           /\ result.technicalDebt[n].type = ruleConfig.customRules[k].name
           /\ result.technicalDebt[n].severity
                = ruleConfig.customRules[k].severity

\* the analysis has thrown for a configuration whose JSON rule matches an
\* added line
JsonRuleThrew == rulePc = "threw" /\ MatchedJsonRules # {}

\* git.autoPush as a configuration file gives it, undefined when it does not
FileAutoPush(file) == getNestedValue(file, <<"git", "autoPush">>)

\* git.autoPush as the environment gives it
EnvAutoPush ==
  IF configSources.env.AI_COMMIT_AUTO_PUSH = "unset" THEN Undef
  ELSE Bool(configSources.env.AI_COMMIT_AUTO_PUSH = "true")

\* what the sources give for git.autoPush, highest priority first:
\* package.json, .commitrc.json, ~/.commitrc, environment, defaults
AutoPushByPriority ==
  << FileAutoPush(configSources.packageJson),
     FileAutoPush(configSources.commitRc),
     FileAutoPush(configSources.globalConfig),
     EnvAutoPush,
     Bool(FALSE) >>

\* C18: when several sources give the same setting, load() returns the value
\* of the source of highest priority, in the order package.json commitConfig
\* > .commitrc.json > ~/.commitrc > environment variables > built-in
\* defaults.
HighestPriorityWins ==
  loadedConfig # NotLoaded =>
    LET given == {k \in 1..Len(AutoPushByPriority) :
                    AutoPushByPriority[k] # Undef}
        first == CHOOSE k \in given : \A j \in given : k <= j
    IN getNestedValue(loadedConfig, <<"git", "autoPush">>)
         = AutoPushByPriority[first]

\* a configuration was loaded for which ~/.commitrc and the environment
\* alone give git.autoPush, with different values
GlobalAndEnvironmentDiffer ==
  /\ loadedConfig # NotLoaded
  /\ FileAutoPush(configSources.packageJson) = Undef
  /\ FileAutoPush(configSources.commitRc) = Undef
  /\ FileAutoPush(configSources.globalConfig) = Bool(TRUE)
  /\ EnvAutoPush = Bool(FALSE)

\* the integrations of the loaded configuration
Integrations == Get(loadedConfig, "integrations")

RECURSIVE Strings(_)
\* the strings that appear in a value
Strings(x) ==
  IF x.t = "string" THEN {x.v}
  ELSE IF x.t = "object"
    THEN UNION {Strings(x.f[k]) : k \in DOMAIN x.f}
    ELSE {}

\* the token and apiKey values of the integrations of the loaded
\* configuration
Secrets ==
  UNION {Strings(Get(Integrations.f[key], prop)) \ {""} :
           key \in {k \in DOMAIN Integrations.f :
                      Integrations.f[k].t = "object"},
           prop \in {"token", "apiKey"}}

\* C19: for every configuration, sanitize returns a configuration in which
\* the token and the apiKey of each integration are replaced by
\* '***REDACTED***' and every other field equals the input's; no token or
\* apiKey value of the loaded configuration appears in the verbose log or in
\* the config_get response.
SanitizeRedactsSecrets ==
  loadedConfig # NotLoaded =>
    /\ ~sanitizeThrows(loadedConfig)
    /\ \A key \in DOMAIN Integrations.f :
         LET before == Integrations.f[key]
             after == sanitize(loadedConfig).f["integrations"].f[key]
         IN \A prop \in DOMAIN before.f :
              IF prop \in {"token", "apiKey"}
                THEN Get(after, prop) = Redacted
                ELSE before.f[prop].t # "undefined"
                       => Get(after, prop) = before.f[prop]
    /\ \A prop \in DOMAIN loadedConfig.f \ {"integrations"} :
         sanitize(loadedConfig).f[prop] = loadedConfig.f[prop]
    /\ shown \notin {NotShown, ErrorShown} => Strings(shown) \cap Secrets = {}

\* the configuration holds a null integration and logging it or answering
\* config_get has failed
NullIntegrationShown ==
  /\ loadedConfig # NotLoaded
  /\ Get(Integrations, "notion") = Null
  /\ shown = ErrorShown

\* the diff has one of the words
DiffHas(words) == \E w \in words : Includes(diff, w)

\* the commit type of the ordered rule list: test, docs, feat, fix,
\* refactor, and chore when none applies
TypeByOrder ==
  IF \E k \in 1..Len(files) :
       Includes(files[k], <<"t","e","s","t">>) \/ Includes(files[k], <<"s","p","e","c">>)
    THEN <<"t","e","s","t">>
  ELSE IF \E k \in 1..Len(files) :
            EndsWith(files[k], <<".","m","d">>) \/ Includes(files[k], <<"d","o","c">>)
    THEN <<"d","o","c","s">>
  ELSE IF DiffHas({<<"f","u","n","c","t","i","o","n">>, <<"c","l","a","s","s">>, <<"c","o","n","s","t">>}) /\ DiffHas({<<"e","x","p","o","r","t">>})
    THEN <<"f","e","a","t">>
  ELSE IF DiffHas({<<"f","i","x">>, <<"b","u","g">>}) THEN <<"f","i","x">>
  ELSE IF DiffHas({<<"f","u","n","c","t","i","o","n">>, <<"c","l","a","s","s">>, <<"c","o","n","s","t">>}) THEN <<"r","e","f","a","c","t","o","r">>
  ELSE <<"c","h","o","r","e">>

\* C20: when the caller gives no message, the drafted message is
\* "<type>: <description>" where the type is the first that applies of: test
\* for a test path, docs for a markdown or doc path, feat for a function or
\* class keyword together with an export keyword in the diff, fix for a fix
\* or bug keyword, refactor, and chore when none applies; the same in every
\* handler that drafts a message.
DraftTypeFollowsOrder ==
  draft # NotDrafted => StartsWith(draft, TypeByOrder \o <<":"," ">>)

\* commitHandler has drafted the message for a source file whose diff has a
\* function keyword and a fix keyword and no export
FixDraftedByHandler ==
  /\ draft # NotDrafted
  /\ drafter = "handler"
  /\ files = <<<<"s","r","c","/","u","t","i","l",".","t","s">>>>
  /\ diff = <<"+","f","u","n","c","t","i","o","n"," ","f","(",")"," ","{","}"," ","/","/"," ","f","i","x"," ","b","u","g">>

\* ------------------------------------------------------------------------
\* Properties of the options, the analyzer helpers, the plugin manager and
\* the configuration tools.
\* ------------------------------------------------------------------------

\* C21: a run of commitCommand with --dry-run or --analyze-only never creates
\* a commit, never pushes and never performs a plugin sync; with --dry-run it
\* also stages nothing and writes no report file.
DryRunMakesNoChange ==
  entry = "cli" =>
    /\ (opts.dryRun \/ opts.analyzeOnly) =>
         /\ Range(steps) \cap {"commit", "sync", "push"} = {}
         /\ ~committed /\ ~commitInfo /\ ~pushed
         /\ \A p \in Plugins : syncCalls[p] = 0
    /\ opts.dryRun =>
         Range(steps) \cap {"stage", "analyze", "report", "stageReport"} = {}

\* a dry run, with push asked for and plugins configured, ran to its end
DryRunDone ==
  /\ entry = "cli"
  /\ opts.dryRun /\ ~opts.analyzeOnly
  /\ opts.message /\ opts.analysis /\ opts.push
  /\ config.autoPush /\ config.analysisEnabled /\ config.plugins > 0
  /\ pc = "done"
  /\ outcome = "success"
  /\ steps = <<"beforeAnalysis", "beforeCommit", "destroy">>

\* the line "diff --git a/P b/P" of the path P
HeaderOf(P) == <<"d","i","f","f"," ","-","-","g","i","t"," ","a","/">> \o P \o <<" ","b","/">> \o P

\* the path P of a line "diff --git a/P b/P": its second half
PathOfHeader(line) == SubSeq(line, (Len(line) - 16) \div 2 + 17, Len(line))

\* the last "diff --git" line at or above line n, 0 when there is none
HeaderAbove(diffLines, n) ==
  LET hdrs == {i \in 1..n : StartsWith(diffLines[i], <<"d","i","f","f"," ","-","-","g","i","t">>)}
  IN IF hdrs = {} THEN 0 ELSE CHOOSE i \in hdrs : \A j \in hdrs : i >= j

\* C22: the line of a TechnicalDebtItem is the 1-based index of a line of the
\* diff, and its file is exactly the path P of the nearest header
\* "diff --git a/P b/P" before that line, whatever P is; with no header
\* before the line the file is absent, and nothing throws.
ItemLocationIsExact ==
  result \notin {NotRun, Threw} =>
    \A k \in 1..Len(result.technicalDebt) :
      result.technicalDebt[k].line # 0 =>
        /\ result.technicalDebt[k].line \in 1..Len(Split(diff, "\n"))
        /\ result.technicalDebt[k].file
             = IF HeaderAbove(Split(diff, "\n"),
                              result.technicalDebt[k].line) = 0
                 THEN Undefined
                 ELSE Defined(PathOfHeader(
                        Split(diff, "\n")[HeaderAbove(Split(diff, "\n"),
                           result.technicalDebt[k].line)]))

\* an item was reported under the header of a path that contains "b/"
LibHeaderAnalyzed ==
  /\ result # NotRun
  /\ diff = JoinLines(<<HeaderOf(<<"l","i","b","/","t","e","s","t","/","r","u","n",".","t","s">>), AddTodo>>)
  /\ Len(result.technicalDebt) = 1
  /\ result.technicalDebt[1].line = 2


\* the lines of the diff d that begin with the character c
LinesWith(d, c) ==
  SelectSeq(Split(d, "\n"), LAMBDA line : line # <<>> /\ line[1] = c)

\* how many items of risks have the type type and the severity severity
RiskCount(risks, type, severity) ==
  Cardinality({k \in 1..Len(risks) :
                 risks[k].type = type /\ risks[k].severity = severity})

\* C23: risks has exactly one HIGH item of type "Breaking Change" if a
\* removed line of the diff (a line that begins with "-") matches a breaking
\* pattern, and no such item when no removed line matches, whatever the added
\* and the context lines contain.
BreakingChangeIffRemovedLine ==
  result \notin {NotRun, Threw} =>
    RiskCount(result.risks, <<"B","r","e","a","k","i","n","g"," ","C","h","a","n","g","e">>, "HIGH")
      = IF \E p \in 1..Len(breakingPatterns) :
             SomeLine(breakingPatterns[p], LinesWith(diff, "-"))
          THEN 1 ELSE 0

\* a diff without a removed line was analyzed: its only change is an added
\* comment line with "-class Foo" in it
AddedLineWithDash ==
  /\ result # NotRun
  /\ diff = JoinLines(<<HdrUtil, <<"+","/","/"," ","p","r","e","-","c","l","a","s","s"," ","F","o","o"," ","{">>>>)
  /\ LinesWith(diff, "-") = <<>>
  /\ files = <<<<"s","r","c","/","u","t","i","l",".","t","s">>>>

\* C24: risks has exactly one MEDIUM item of type "Data Structure Change" if
\* and only if one declaration pattern is matched by a removed line (a line
\* that begins with "-") and by an added line (a line that begins with "+").
DataStructureChangeIffBothSides ==
  result \notin {NotRun, Threw} =>
    RiskCount(result.risks, <<"D","a","t","a"," ","S","t","r","u","c","t","u","r","e"," ","C","h","a","n","g","e">>, "MEDIUM")
      = IF \E p \in 1..Len(dataPatterns) :
             /\ SomeLine(dataPatterns[p], LinesWith(diff, "-"))
             /\ SomeLine(dataPatterns[p], LinesWith(diff, "+"))
          THEN 1 ELSE 0

\* a diff whose only changed line is added, and holds a "-" before a class
\* declaration, was analyzed
OnlyAddedDeclaration ==
  /\ result # NotRun
  /\ Len(LinesWith(diff, "+")) = 1
  /\ LinesWith(diff, "-") = <<>>
  /\ SomeLine(dataPatterns[3], removals(diff))

\* C27: whenever a run writes the analysis report and then creates the
\* commit, the report file is staged between the two, so that the commit
\* contains it.
ReportStagedBeforeCommit ==
  \A i \in 1..Len(steps) : \A j \in 1..Len(steps) :
    (i < j /\ steps[i] = "report" /\ steps[j] = "commit") =>
      \E k \in (i + 1)..(j - 1) : steps[k] = "stageReport"

\* fullHandler has written the report and committed without staging it
FullCommittedAfterReport ==
  /\ entry = "full"
  /\ committed
  /\ SubSeq(steps, 1, 5) = <<"stage", "diff", "analyze", "report", "commit">>

\* C28: when a run has ended, on whatever path, every plugin it loaded was
\* destroyed, exactly once: the PluginManager holds no plugins and destroy
\* ran at most once.
PluginsDestroyedAtEnd ==
  pc = "done" =>
    /\ loaded = {}
    /\ Cardinality({k \in 1..Len(steps) : steps[k] = "destroy"}) <= 1

\* commitCommand has returned at "No changes to commit" with plugins loaded
NoChangesLeavesPlugins ==
  /\ entry = "cli"
  /\ pc = "done"
  /\ outcome = "success"
  /\ "No changes to commit" \in warnings
  /\ loaded # {}
  /\ steps = <<"stage", "diff">>

\* whether a configuration file sets git.autoPush
SetsAutoPush(file) == getNestedValue(file, <<"git", "autoPush">>) # Undef

\* the sources without the variable AI_COMMIT_AUTO_PUSH
WithoutAutoPushVar(src) ==
  [src EXCEPT !.env = [src.env EXCEPT !.AI_COMMIT_AUTO_PUSH = "unset"]]

\* C29: each AI_COMMIT_* variable determines its own setting only: with
\* AI_COMMIT_AUTO_PUSH = "true" and no configuration file that sets
\* git.autoPush, load() returns git.autoPush true, whether
\* AI_COMMIT_REQUIRE_TESTS is set or not; and git.requireTests is what it
\* would be without the variable AI_COMMIT_AUTO_PUSH.
EnvVarSetsOnlyItsOwnSetting ==
  loadedConfig # NotLoaded =>
    /\ ( /\ configSources.env.AI_COMMIT_AUTO_PUSH = "true"
         /\ ~SetsAutoPush(configSources.globalConfig)
         /\ ~SetsAutoPush(configSources.commitRc)
         /\ ~SetsAutoPush(configSources.packageJson) )
         => getNestedValue(loadedConfig, <<"git", "autoPush">>) = Bool(TRUE)
    /\ getNestedValue(loadedConfig, <<"git", "requireTests">>)
         = getNestedValue(load(WithoutAutoPushVar(configSources)),
                          <<"git", "requireTests">>)

\* a configuration was loaded with both variables set to "true" and no
\* configuration file
BothVariablesLoaded ==
  /\ loadedConfig # NotLoaded
  /\ configSources.env.AI_COMMIT_AUTO_PUSH = "true"
  /\ configSources.env.AI_COMMIT_REQUIRE_TESTS = "true"
  /\ configSources.globalConfig = EmptyObj
  /\ configSources.commitRc = EmptyObj
  /\ configSources.packageJson = EmptyObj

\* C30: after a config_set(key, value) that succeeded, for a key that is no
\* secret, a config_get(key) that follows answers with that value, and a
\* workflow run that follows loads it.
SetThenGet ==
  lastSet # NoSet =>
    /\ (shown.t = "got" /\ shown.keys = lastSet.keys)
         => shown.value = lastSet.value
    /\ getNestedValue(load(configSources), lastSet.keys) = lastSet.value

\* config_get('git.autoPush') has answered after config_set('git.autoPush',
\* true) in a directory without configuration files
GotAfterSet ==
  /\ lastSet = [keys |-> <<"git", "autoPush">>, value |-> Bool(TRUE)]
  /\ getNestedValue(mcpFile, <<"git", "autoPush">>) = Bool(TRUE)
  /\ configSources.commitRc = EmptyObj
  /\ shown.t = "got"
  /\ shown.keys = <<"git", "autoPush">>

\* the statements of commitCommand that run a lifecycle hook
HookStatements ==
  {"beforeAnalysis", "afterAnalysis", "beforeCommit", "afterCommit"}

\* a step of commitCommand at a hook statement goes on to the statement that
\* follows, and leaves the analysis and commit results as they were
HookStepProceeds ==
  (entry = "cli" /\ pc \in HookStatements) =>
    /\ pc' = After(pc)
    /\ outcome' = "running"
    /\ failed' = failed
    /\ UNCHANGED <<analysisResult, commitInfo, committed, pushed>>
    /\ UNCHANGED <<loaded, syncers>>

\* C25: runHook never throws or rejects: when the hook of one plugin throws
\* or rejects, the hook of every other loaded plugin that implements it is
\* still invoked, and the workflow goes on to its next statement with the
\* analysis and commit results as they were.
HookFailureContained ==
  /\ [](hookRun.invoked = hookRun.implementing)
  /\ [][HookStepProceeds]_vars

\* beforeCommit ran with two plugins that implement it: the hook of the first
\* threw, the second was invoked all the same, and the workflow is at the
\* commit
HookThrewOthersInvoked ==
  /\ entry = "cli"
  /\ hookRun.name = "beforeCommit"
  /\ hookRun.threw = {1}
  /\ hookRun.invoked = {1, 2}
  /\ pc = "commit"
  /\ outcome = "running"
  /\ analysisResult

\* the step a comes before the step b in the steps c
StepBefore(c, a, b) ==
  \E i \in 1..Len(c) : \E j \in (i + 1)..Len(c) : c[i] = a /\ c[j] = b

\* loading the module m fails: the import, the metadata, init or validate
LoadFails(m) ==
  \/ ~m.imports
  \/ ~m.hasDefault
  \/ ~m.metadata
  \/ m.init = "throws"
  \/ m.validate \in {"invalid", "throws"}

\* C26: a plugin is registered in the PluginManager only after its init has
\* completed and its validate has returned valid; a plugin that fails to
\* import, lacks name or version, throws in init or fails validation is never
\* registered and never invoked, and the remaining configured plugins are
\* loaded all the same.
RegisteredOnlyWhenValid ==
  /\ \A p \in loaded :
       /\ ~LoadFails(modules[p])
       /\ modules[p].init # "none" => StepBefore(lifecycle[p], "init", "set")
       /\ modules[p].validate # "none"
            => StepBefore(lifecycle[p], "validate", "set")
  /\ \A p \in Plugins :
       LoadFails(modules[p]) =>
         /\ p \notin loaded
         /\ "set" \notin Range(lifecycle[p])
         /\ p \notin hookRun.invoked
         /\ syncCalls[p] = 0
  /\ pc # "loadPlugins" =>
       \A p \in Plugins : ~LoadFails(modules[p]) => p \in loaded

\* the first plugin failed its validation, the second one was loaded after
\* it and has received a hook
LoadedAfterFailure ==
  /\ entry = "plugins"
  /\ pc = "done"
  /\ modules[1] = Module(TRUE, TRUE, TRUE, "ok", "invalid")
  /\ lifecycle[1] = <<"import", "new", "init", "validate">>
  /\ modules[2] = Module(TRUE, TRUE, TRUE, "ok", "valid")
  /\ lifecycle[2] = <<"import", "new", "init", "validate", "set">>
  /\ 1 \notin loaded
  /\ 2 \in hookRun.invoked
====
